---- MODULE Spec2Model ----
(***************************************************************************)
(* A model of pistis::concurrent::pollable::Queue and of the primitives it *)
(* is built from (Condition, Semaphore, ReadWriteToggle).                  *)
(*                                                                         *)
(* Three specifications share the state and the operations:                *)
(*   Spec          one caller driving a queue through whole operations     *)
(*   SpecConc      several threads, each blocking operation split at the   *)
(*                 points where the code releases or acquires a mutex or   *)
(*                 suspends on a semaphore                                 *)
(*   SpecScenario  one caller, puts and gets only, on Queue(10, 2, 4),     *)
(*                 with the operations and their notifications logged      *)
(***************************************************************************)
EXTENDS Integers, Sequences, FiniteSets, TLC

(***************************************************************************)
(* Bounds of the model.                                                    *)
(***************************************************************************)
\* Largest maxSize_ a queue of Spec is constructed with.
MaxSize == 3
\* Number of operations the caller of Spec performs.
MaxOps == 6
\* Number of threads of SpecConc.
NumThreads == 3
\* Largest maxSize_ a queue of SpecConc is constructed with.
MaxConcSize == 2
\* Number of operations the threads of SpecConc start, in total.
MaxConcOps == 4
\* Number of operations the threads of SpecWait start, in total.
MaxWaitOps == 3
\* Number of threads that run in SpecWait.
NumWaitThreads == 2
\* Number of operations the threads of SpecMarks start, in total.
MaxMarkOps == 5
\* Number of operations performed in a run of SpecObserve.
MaxObserveOps == 5
\* Largest maxSize_ a queue of SpecMove is constructed with.
MaxMoveSize == 2
\* Number of operations the caller of SpecMove performs.
MaxMoveOps == 6
\* Number of semaphores (eventfds) that can be open at the same time.
MaxSems == 3
\* Number of calls made on the Condition of SpecCond.
MaxCondOps == 6
\* Number of calls made on the Condition of SpecCondFair.
MaxFairOps == 5
\* Number of calls made in a run of SpecLookup.
MaxLookupOps == 5
\* Number of Guard objects of SpecGuard.
NumGuards == 2
\* Number of calls made on the Guards of SpecGuard.
MaxGuardOps == 6
\* The largest count of the Semaphore of SpecSem (for 0xfffffffffffffffe).
SemMax == 3
\* Number of calls the threads of SpecSem start, in total.
MaxSemOps == 4
\* Number of calls the threads of SpecSemFair start, in total.
MaxSemFairOps == 3
\* Number of eventfds of SpecEpoll.
NumEpollFds == 2
\* Number of calls made in a run of SpecEpoll.
MaxEpollOps == 6
\* The largest maxEvents passed to EpollSet::wait.
MaxMaxEvents == 2
\* Number of times one epoll_wait is interrupted by a signal.
MaxInterrupts == 1
\* Number of calls made on the ReadWriteToggle of SpecToggle.
MaxToggleOps == 5
\* Number of calls the threads of SpecLock start, in total.
MaxLockOps == 3
\* Number of operations of a run of SpecScenario.
ScenarioLen == 13

(***************************************************************************)
(* Program constants.                                                      *)
(***************************************************************************)
\* STATE_VALUES[READ_ONLY] = (uint64_t)-2, the largest value an eventfd
\* counter holds.  TLC's integers are 32 bits wide, so the model uses the
\* largest value of that shape TLC can add 1 to; the code only compares
\* the value with 0 and 1 and subtracts 0 or 1 from it.
EventFdMax == 2147483646
\* Queue(10, 2, 4), the queue of the watermark tests.
ScenarioMaxSize == 10
ScenarioLowWaterMark == 2
ScenarioHighWaterMark == 4

Threads == 1..NumThreads
WaitThreads == 1..NumWaitThreads
\* The caller of Spec and SpecScenario.
Main == CHOOSE t \in Threads : \A u \in Threads : t <= u
SemIds == 1..MaxSems
NoSem == 0
Guards == 1..NumGuards
\* Guard::fd_ of a Guard that observes nothing.
NoFd == -1

EventTypes ==
  {"EMPTY", "NOT_EMPTY", "FULL", "NOT_FULL", "HIGH_WATER_MARK", "LOW_WATER_MARK"}

\* Timeouts by what the code does with them: < 0, = 0, > 0.
Timeouts == {"NEG", "ZERO", "POS"}

\* The mutexes: Queue::sync_, and Condition::sync_ of each of the six
\* Conditions, named by its event type.
Mutexes == {"Queue"} \cup EventTypes

\* The eventfds an EpollSet is asked about, and the events an eventfd has.
EpollFds == 1..NumEpollFds
EpollEventTypes == {"READ", "WRITE"}

VARIABLES
  \* ---- Queue ----
  constructed,        \* the constructor returned (it throws when the toggle has no fd)
  dst,                \* the Queue this one was last moved to, NoQueue before
  guards,             \* the Guard objects: [Guards -> Guard record]
  epollSet,           \* an EpollSet: registrations, numFds_, events_, the wait under way
  toggle,             \* a ReadWriteToggle of its own: [fd_, state_, count]
  sync_,              \* [Mutexes -> 0..NumThreads], the thread that holds each mutex, 0 for none
  toNotify,           \* the Conditions issueNotifications_ has still to notify, in order
  maxSize_, lowWaterMark_, highWaterMark_,
  q_,                 \* std::deque<Item>
  highWaterCrossed_,
  queueState_,        \* ReadWriteToggle: [state_, count], count the eventfd's counter
  \* ---- the six Conditions and their Semaphores ----
  queue_,             \* [EventTypes -> Seq(SemIds)], Condition::queue_
  sem,                \* [SemIds -> Nat], the counter of each semaphore's eventfd
  observers_,         \* [EventTypes -> SUBSET SemIds], Condition::observers_ (by fd)
  acking,             \* [EventTypes -> SUBSET SemIds], fds inside Condition::ack
  \* ---- threads (SpecConc) ----
  pc, op, s, haveTime, phase, waited,
  began,              \* Len(wmLog) when the thread's Queue::wait call began
  \* ---- what the callers observed ----
  putLog,             \* items in the order their put succeeded
  got,                \* [Threads -> Seq(Item)], items returned by get/getAll
  cleared,            \* items discarded by clear
  wmLog,              \* watermark notifications in order, "H" or "L"
  fired,              \* events notified by the last completed operation
  last,               \* the last completed operation and its result
  trace,              \* SpecScenario: the operations and what each notified
  opsLeft, nextItem

queueVars == <<constructed, dst, guards, epollSet, toggle, sync_, toNotify, maxSize_, lowWaterMark_, highWaterMark_, q_,
               highWaterCrossed_, queueState_, queue_, sem, observers_, acking>>
threadVars == <<pc, op, s, haveTime, phase, waited, began>>
histVars == <<putLog, got, cleared, wmLog, fired, last, trace, opsLeft, nextItem>>
vars == <<queueVars, threadVars, histVars>>

\* No call of EpollSet::wait is under way.
NoCall == [waiting |-> FALSE, timeout |-> "NEG", numEventsToPoll |-> 0, interrupted |-> 0]

\* Before the EpollSet is constructed.  `registered` and `interest` are the
\* kernel's interest list of the epoll fd: the fds in it, and the event
\* types each was registered for.
NoEpollSet ==
  [fd_ |-> NoFd, registered |-> {}, interest |-> [fd \in EpollFds |-> {}],
   numFds_ |-> 0, events_ |-> {}, call |-> NoCall]

Range(f) == {f[i] : i \in DOMAIN f}
Occurrences(f, x) == Cardinality({i \in DOMAIN f : f[i] = x})

(***************************************************************************)
(* ReadWriteToggle                                                         *)
(***************************************************************************)
STATE_VALUES(state) ==
  CASE state = "READ_ONLY" -> EventFdMax
    [] state = "WRITE_ONLY" -> 0
    [] state = "READ_WRITE" -> 1

\* createEventFd has no return statement: what the constructor stores in fd_
\* is undefined.  Either it is the descriptor eventfd returned, or it is
\* not a descriptor, and the first read or write on it throws SystemError.
CreateEventFdOutcomes == {TRUE, FALSE}

\* An eventfd without EFD_SEMAPHORE: a read returns the counter and resets it.
readValue(count) == 0
writeValue(count, v) == count + v

changeState_(tog, newState) ==
  LET oldValue == STATE_VALUES(tog.state_)
      newValue == STATE_VALUES(newState)
      count == IF newValue > oldValue THEN writeValue(tog.count, newValue - oldValue)
               ELSE IF newValue < oldValue
                 THEN IF newValue # 0 THEN writeValue(readValue(tog.count), newValue)
                      ELSE readValue(tog.count)
               ELSE tog.count
  IN [state_ |-> newState, count |-> count]

setState(tog, newState) ==
  IF newState # tog.state_ THEN changeState_(tog, newState) ELSE tog

\* poll() on an eventfd: readable when the counter is positive, writable when
\* a write of 1 would not block.
Readable(count) == count > 0
Writable(count) == count < EventFdMax

\* ReadWriteToggle(): eventfd(STATE_VALUES[READ_WRITE]), state_(READ_WRITE)
NewToggle == [state_ |-> "READ_WRITE", count |-> STATE_VALUES("READ_WRITE")]

\* Before the ReadWriteToggle of SpecToggle is constructed.
NoToggle == [exists |-> FALSE, fd_ |-> NoFd, state_ |-> "READ_WRITE", count |-> 0]

(***************************************************************************)
(* Semaphores: an eventfd is named by its descriptor; the kernel hands out *)
(* the lowest free one, and the eventfd is closed when the last            *)
(* shared_ptr to its Semaphore goes.                                       *)
(***************************************************************************)
Referenced(i) ==
  \/ \E t \in Threads : s[t] = i
  \/ \E e \in EventTypes : i \in observers_[e] \/ i \in acking[e]
Enqueued(i) == \E e \in EventTypes : i \in Range(queue_[e])
FreeSems == {i \in SemIds : ~Referenced(i) /\ ~Enqueued(i)}
NewSem == CHOOSE i \in FreeSems : \A j \in FreeSems : i <= j

(***************************************************************************)
(* Condition::notifyAll on each Condition of `events`: every handle of its *)
(* queue_ is signalled (up) and popped.  A handle nobody else holds is     *)
(* destroyed when it is popped.                                            *)
(***************************************************************************)
\* Mutant: an `if` for the `while`, only the back handle is signalled and popped.
notifyAll_Once(events) ==
  /\ queue_' = [e \in EventTypes |->
                  IF e \in events THEN SubSeq(queue_[e], 1, Len(queue_[e]) - 1)
                  ELSE queue_[e]]
  /\ sem' = [i \in SemIds |->
               IF \E e \in events : queue_[e] # <<>> /\ queue_[e][Len(queue_[e])] = i
               THEN IF Referenced(i) THEN sem[i] + 1 ELSE 0
               ELSE sem[i]]
  /\ UNCHANGED <<observers_, acking>>
notifyAll(events) ==
  /\ queue_' = [e \in EventTypes |-> IF e \in events THEN <<>> ELSE queue_[e]]
  /\ sem' = [i \in SemIds |->
               IF \E e \in events : i \in Range(queue_[e])
               THEN IF Referenced(i)
                    THEN sem[i] + Occurrences(queue_[CHOOSE e \in events :
                                                      i \in Range(queue_[e])], i)
                    ELSE 0
               ELSE sem[i]]
  /\ UNCHANGED <<observers_, acking>>

(***************************************************************************)
(* Queue::issueNotifications_                                              *)
(***************************************************************************)
NotEmptyRule(oldSize, newSize) == oldSize = 0 /\ newSize # 0
EmptyRule(oldSize, newSize) == oldSize # 0 /\ newSize = 0
NotFullRule(oldSize, newSize) == oldSize >= maxSize_ /\ newSize < maxSize_
FullRule(oldSize, newSize) == oldSize < maxSize_ /\ newSize >= maxSize_
\* Mutants of the fifth rule: without the latch; firing on reaching the mark.
HighWaterRule_NoLatch(oldSize, newSize, crossed) ==
  oldSize <= highWaterMark_ /\ newSize > highWaterMark_
HighWaterRule_AtMark(oldSize, newSize, crossed) ==
  oldSize < highWaterMark_ /\ newSize >= highWaterMark_ /\ ~crossed
HighWaterRule(oldSize, newSize, crossed) ==
  oldSize <= highWaterMark_ /\ newSize > highWaterMark_ /\ ~crossed
\* Mutant of the sixth rule: firing only below the mark.
LowWaterRule_Below(oldSize, newSize, crossed) ==
  oldSize >= lowWaterMark_ /\ newSize < lowWaterMark_ /\ crossed
LowWaterRule(oldSize, newSize, crossed) ==
  oldSize > lowWaterMark_ /\ newSize <= lowWaterMark_ /\ crossed

\* highWaterCrossed_ after the fifth rule, which the sixth reads.
CrossedAfterHigh(oldSize, newSize, crossed) ==
  IF HighWaterRule(oldSize, newSize, crossed) THEN TRUE ELSE crossed
\* Mutant: the sixth rule leaves the latch set.
CrossedAfterLow_NoReset(oldSize, newSize, crossed) ==
  CrossedAfterHigh(oldSize, newSize, crossed)
CrossedAfterLow(oldSize, newSize, crossed) ==
  IF LowWaterRule(oldSize, newSize, CrossedAfterHigh(oldSize, newSize, crossed))
  THEN FALSE
  ELSE CrossedAfterHigh(oldSize, newSize, crossed)

\* The Conditions notified, as event types.
NotifiedEvents(oldSize, newSize, crossed) ==
  {e \in EventTypes :
     \/ e = "NOT_EMPTY" /\ NotEmptyRule(oldSize, newSize)
     \/ e = "EMPTY" /\ EmptyRule(oldSize, newSize)
     \/ e = "NOT_FULL" /\ NotFullRule(oldSize, newSize)
     \/ e = "FULL" /\ FullRule(oldSize, newSize)
     \/ e = "HIGH_WATER_MARK" /\ HighWaterRule(oldSize, newSize, crossed)
     \/ e = "LOW_WATER_MARK"
          /\ LowWaterRule(oldSize, newSize, CrossedAfterHigh(oldSize, newSize, crossed))}

\* The setState calls, in the order of the code.
ToggleAfter(tog, oldSize, newSize) ==
  LET t1 == IF NotEmptyRule(oldSize, newSize) THEN setState(tog, "READ_WRITE") ELSE tog
      t2 == IF EmptyRule(oldSize, newSize) THEN setState(t1, "WRITE_ONLY") ELSE t1
      t3 == IF NotFullRule(oldSize, newSize) THEN setState(t2, "READ_WRITE") ELSE t2
      t4 == IF FullRule(oldSize, newSize) THEN setState(t3, "READ_ONLY") ELSE t3
  IN t4

WatermarkEvents(events) ==
  (IF "HIGH_WATER_MARK" \in events THEN <<"H">> ELSE <<>>)
    \o (IF "LOW_WATER_MARK" \in events THEN <<"L">> ELSE <<>>)

issueNotifications_(oldSize, newSize) ==
  LET events == NotifiedEvents(oldSize, newSize, highWaterCrossed_)
  IN /\ notifyAll(events)
     /\ queueState_' = ToggleAfter(queueState_, oldSize, newSize)
     /\ highWaterCrossed_' = CrossedAfterLow(oldSize, newSize, highWaterCrossed_)
     /\ fired' = events
     /\ wmLog' = wmLog \o WatermarkEvents(events)

(***************************************************************************)
(* The bodies of the Queue's operations, run with sync_ held.              *)
(***************************************************************************)
\* Mutant: the item at the other end is returned.
front_Back(q) == q[Len(q)]
front(q) == Head(q)
\* Mutant: the item at the other end is removed.
pop_front_Back(q) == SubSeq(q, 1, Len(q) - 1)
pop_front(q) == Tail(q)
push_back(q, item) == Append(q, item)

\* executePut_: putItem(); issueNotifications_(q_.size() - 1, q_.size())
putItem(item) ==
  LET newQ == push_back(q_, item)
  IN /\ q_' = newQ
     /\ issueNotifications_(Len(newQ) - 1, Len(newQ))
     /\ putLog' = Append(putLog, item)
     /\ UNCHANGED <<got, cleared>>

\* get: item(q_.front()); q_.pop_front(); issueNotifications_(size + 1, size)
getItem(t) ==
  LET item == front(q_)
      newQ == pop_front(q_)
  IN /\ q_' = newQ
     /\ issueNotifications_(Len(newQ) + 1, Len(newQ))
     /\ got' = [got EXCEPT ![t] = Append(@, item)]
     /\ UNCHANGED <<putLog, cleared>>

\* getAll: result(std::move(q_)); issueNotifications_(result.size(), 0)
getAllItems(t) ==
  LET result == q_
  IN /\ q_' = <<>>
     /\ issueNotifications_(Len(result), 0)
     /\ got' = [got EXCEPT ![t] = @ \o result]
     /\ UNCHANGED <<putLog, cleared>>

\* clear: oldSize = q_.size(); q_.clear(); issueNotifications_(oldSize, 0)
clearItems ==
  LET oldSize == Len(q_)
  IN /\ q_' = <<>>
     /\ issueNotifications_(oldSize, 0)
     /\ cleared' = cleared \cup Range(q_)
     /\ UNCHANGED <<putLog, got>>

\* An operation that returns without touching the queue.
noMutation ==
  /\ UNCHANGED <<q_, queue_, sem, observers_, acking, queueState_, highWaterCrossed_>>
  /\ UNCHANGED <<putLog, got, cleared, wmLog>>
  /\ fired' = {}

\* setLowWaterMark: throws IllegalValueError when value > highWaterMark_
LowWaterMarkLegal(value) == ~(value > highWaterMark_)
\* Mutant: the new high water mark is not compared with the low water mark.
HighWaterMarkLegal_NoLowerCheck(value) == ~(value > maxSize_)
\* setHighWaterMark: throws when value > maxSize_ or value < lowWaterMark_
HighWaterMarkLegal(value) == ~(value > maxSize_) /\ ~(value < lowWaterMark_)

\* What a completed operation left for its caller.
Result(kind, tmo, ev, value, hasWaited, since) ==
  [kind |-> kind, tmo |-> tmo, ev |-> ev, value |-> value, waited |-> hasWaited,
   began |-> since]

(***************************************************************************)
(* Construction.  Queue(maxSize, lowWaterMark, highWaterMark) throws       *)
(* IllegalValueError for marks out of order (no queue exists then), and    *)
(* ends with queueState_.setState(WRITE_ONLY).                             *)
(***************************************************************************)
ConstructorLegal(maxSize, lowWaterMark, highWaterMark) ==
  ~(highWaterMark > maxSize) /\ ~(lowWaterMark > highWaterMark)

\* No Guard object: not constructed yet, or destroyed.
NoGuard ==
  [class |-> "none", c_ |-> "nullptr", q_ |-> "nullptr", t_ |-> "EMPTY", fd_ |-> NoFd]

\* No Queue has been made from this one.
NoQueue ==
  [exists |-> FALSE, maxSize_ |-> 0, lowWaterMark_ |-> 0, highWaterMark_ |-> 0,
   q_ |-> <<>>, highWaterCrossed_ |-> FALSE, queueState_ |-> NewToggle,
   wmSeen |-> <<>>]

InitQueue(maxSize, lowWaterMark, highWaterMark, fdOk) ==
  /\ dst = NoQueue
  /\ guards = [g \in Guards |-> NoGuard]
  /\ epollSet = NoEpollSet
  /\ toggle = NoToggle
  /\ sync_ = [m \in Mutexes |-> 0]
  /\ toNotify = <<>>
  /\ constructed = (fdOk /\ ConstructorLegal(maxSize, lowWaterMark, highWaterMark))
  /\ maxSize_ = maxSize
  /\ lowWaterMark_ = lowWaterMark
  /\ highWaterMark_ = highWaterMark
  /\ q_ = <<>>
  /\ highWaterCrossed_ = FALSE
  /\ queueState_ = IF fdOk THEN setState(NewToggle, "WRITE_ONLY") ELSE NewToggle
  /\ queue_ = [e \in EventTypes |-> <<>>]
  /\ observers_ = [e \in EventTypes |-> {}]
  /\ acking = [e \in EventTypes |-> {}]
  /\ sem = [i \in SemIds |-> 0]

InitThreads ==
  /\ pc = [t \in Threads |-> "idle"]
  /\ op = [t \in Threads |-> [kind |-> "none", tmo |-> "NEG", ev |-> "EMPTY", item |-> 0]]
  /\ s = [t \in Threads |-> NoSem]
  /\ haveTime = [t \in Threads |-> TRUE]
  /\ phase = [t \in Threads |-> 1]
  /\ waited = [t \in Threads |-> FALSE]
  /\ began = [t \in Threads |-> 0]

InitHist(ops) ==
  /\ putLog = <<>>
  /\ got = [t \in Threads |-> <<>>]
  /\ cleared = {}
  /\ wmLog = <<>>
  /\ fired = {}
  /\ last = Result("ctor", "NEG", "EMPTY", TRUE, FALSE, 0)
  /\ trace = <<>>
  /\ opsLeft = ops
  /\ nextItem = 1

(***************************************************************************)
(* Spec: one caller, whole operations.  A put on a full queue or a get on  *)
(* an empty one is the call with timeout 0 (with any other timeout the     *)
(* only caller would suspend for good, or for the timeout).                *)
(***************************************************************************)
Init ==
  /\ \E maxSize \in 1..MaxSize, lowWaterMark, highWaterMark \in 0..MaxSize,
        fdOk \in CreateEventFdOutcomes :
       InitQueue(maxSize, lowWaterMark, highWaterMark, fdOk)
  /\ InitThreads
  /\ InitHist(MaxOps)

CallerStep(kind, tmo, value) ==
  /\ last' = Result(kind, tmo, "EMPTY", value, FALSE, 0)
  /\ opsLeft' = opsLeft - 1
  /\ UNCHANGED <<constructed, dst, guards, epollSet, toggle, sync_, toNotify, maxSize_, threadVars, trace>>

CanCall == constructed /\ opsLeft > 0

Put ==
  /\ CanCall
  /\ \E tmo \in Timeouts :
       /\ IF Len(q_) >= maxSize_
          THEN tmo = "ZERO" /\ noMutation
          ELSE putItem(nextItem)
       /\ CallerStep("put", tmo, ~(Len(q_) >= maxSize_))
  /\ nextItem' = nextItem + 1
  /\ UNCHANGED <<lowWaterMark_, highWaterMark_>>

Get ==
  /\ CanCall
  /\ \E tmo \in Timeouts :
       /\ IF q_ = <<>>
          THEN tmo = "ZERO" /\ noMutation
          ELSE getItem(Main)
       /\ CallerStep("get", tmo, q_ # <<>>)
  /\ UNCHANGED <<lowWaterMark_, highWaterMark_, nextItem>>

GetAll ==
  /\ CanCall
  /\ getAllItems(Main)
  /\ CallerStep("getAll", "NEG", TRUE)
  /\ UNCHANGED <<lowWaterMark_, highWaterMark_, nextItem>>

Clear ==
  /\ CanCall
  /\ clearItems
  /\ CallerStep("clear", "NEG", TRUE)
  /\ UNCHANGED <<lowWaterMark_, highWaterMark_, nextItem>>

SetLowWaterMark ==
  /\ CanCall
  /\ \E value \in 0..(maxSize_ + 1) :
       /\ lowWaterMark_' = IF LowWaterMarkLegal(value) THEN value ELSE lowWaterMark_
       /\ CallerStep("setLowWaterMark", "NEG", LowWaterMarkLegal(value))
  /\ noMutation
  /\ UNCHANGED <<highWaterMark_, nextItem>>

\* Mutant: a high water mark set below the size sets the latch and notifies.
SetHighWaterMark_Retroactive ==
  /\ CanCall
  /\ \E value \in 0..(maxSize_ + 1) :
       /\ highWaterMark_' = IF HighWaterMarkLegal(value) THEN value ELSE highWaterMark_
       /\ highWaterCrossed_' = (highWaterCrossed_ \/ Len(q_) > highWaterMark_')
       /\ fired' = IF highWaterCrossed_' # highWaterCrossed_
                   THEN {"HIGH_WATER_MARK"} ELSE {}
       /\ CallerStep("setHighWaterMark", "NEG", HighWaterMarkLegal(value))
  /\ UNCHANGED <<q_, queue_, sem, observers_, acking, queueState_>>
  /\ UNCHANGED <<putLog, got, cleared, wmLog>>
  /\ UNCHANGED <<lowWaterMark_, nextItem>>

SetHighWaterMark ==
  /\ CanCall
  /\ \E value \in 0..(maxSize_ + 1) :
       /\ highWaterMark_' = IF HighWaterMarkLegal(value) THEN value ELSE highWaterMark_
       /\ CallerStep("setHighWaterMark", "NEG", HighWaterMarkLegal(value))
  /\ noMutation
  /\ UNCHANGED <<lowWaterMark_, nextItem>>

Next == Put \/ Get \/ GetAll \/ Clear \/ SetLowWaterMark \/ SetHighWaterMark

Spec == Init /\ [][Next]_vars

(***************************************************************************)
(* SpecScenario: Queue(10, 2, 4), puts and gets (with timeout 0) only,     *)
(* each logged with its result and the watermark events it notified.       *)
(***************************************************************************)
InitScenario ==
  /\ \E fdOk \in CreateEventFdOutcomes :
       InitQueue(ScenarioMaxSize, ScenarioLowWaterMark, ScenarioHighWaterMark, fdOk)
  /\ InitThreads
  /\ InitHist(ScenarioLen)

Logged(kind, value) ==
  trace' = Append(trace, [kind |-> kind, value |-> value,
                          wm |-> WatermarkEvents(fired')])

ScenarioStep(kind, value) ==
  /\ last' = Result(kind, "ZERO", "EMPTY", value, FALSE, 0)
  /\ opsLeft' = opsLeft - 1
  /\ Logged(kind, value)
  /\ UNCHANGED <<constructed, dst, guards, epollSet, toggle, sync_, toNotify, maxSize_, lowWaterMark_, highWaterMark_, threadVars>>

ScenarioPut ==
  /\ CanCall
  /\ IF Len(q_) >= maxSize_ THEN noMutation ELSE putItem(nextItem)
  /\ nextItem' = nextItem + 1
  /\ ScenarioStep("put", ~(Len(q_) >= maxSize_))

ScenarioGet ==
  /\ CanCall
  /\ IF q_ = <<>> THEN noMutation ELSE getItem(Main)
  /\ UNCHANGED nextItem
  /\ ScenarioStep("get", q_ # <<>>)

NextScenario == ScenarioPut \/ ScenarioGet

SpecScenario == InitScenario /\ [][NextScenario]_vars

(***************************************************************************)
(* SpecConc and SpecWait: threads.  Every access to the queue is made with *)
(* sync_ held, and the code between locking sync_ and releasing it (by     *)
(* returning, or by lock.unlock() in waitForInvariant_) does not suspend:  *)
(* it is one step.  A suspended operation goes through the steps of        *)
(* waitForInvariant_ and Condition::wait, at each of which other threads   *)
(* may run:                                                                *)
(*   "wait"    sync_ unlocked, Condition::wait(timeout) not yet entered    *)
(*   "down"    handle pushed on the Condition's queue_, in Semaphore::down *)
(*   "relock"  Condition::wait returned, waiting to lock sync_ again       *)
(* SpecConc: put, get (any timeout), getAll, clear, on Queue(maxSize).     *)
(* SpecWait: Queue::wait (any event), with put and get (timeout 0), getAll *)
(* and clear changing the size, on Queue(maxSize, low, high).              *)
(***************************************************************************)
InitConc ==
  /\ \E maxSize \in 1..MaxConcSize, fdOk \in CreateEventFdOutcomes :
       InitQueue(maxSize, maxSize, maxSize, fdOk)
  /\ InitThreads
  /\ InitHist(MaxConcOps)

InitWait ==
  /\ \E maxSize \in 1..MaxConcSize, lowWaterMark, highWaterMark \in 0..MaxConcSize,
        fdOk \in CreateEventFdOutcomes :
       /\ ConstructorLegal(maxSize, lowWaterMark, highWaterMark)
       /\ InitQueue(maxSize, lowWaterMark, highWaterMark, fdOk)
  /\ InitThreads
  /\ InitHist(MaxWaitOps)

NoOp == [kind |-> "none", tmo |-> "NEG", ev |-> "EMPTY", item |-> 0]

\* The calls a thread of SpecConc makes.
ConcOps ==
  [kind : {"put", "get"}, tmo : Timeouts, ev : {"EMPTY"}, item : {0}]
    \cup [kind : {"getAll", "clear"}, tmo : {"NEG"}, ev : {"EMPTY"}, item : {0}]

\* The calls a thread of SpecWait makes.
WaitOps ==
  [kind : {"wait"}, tmo : Timeouts, ev : EventTypes, item : {0}]
    \cup [kind : {"put", "get"}, tmo : {"ZERO"}, ev : {"EMPTY"}, item : {0}]
    \cup [kind : {"getAll", "clear"}, tmo : {"NEG"}, ev : {"EMPTY"}, item : {0}]

\* The operations thread t can be running with sync_ just locked: one it now
\* calls, or the one it was suspended in.
Entering(t, menu) ==
  IF pc[t] = "idle"
  THEN IF constructed /\ opsLeft > 0
       THEN {[o EXCEPT !.item = IF o.kind = "put" THEN nextItem ELSE 0] : o \in menu}
       ELSE {}
  ELSE IF pc[t] = "relock" THEN {op[t]} ELSE {}

\* The Condition of the waitForInvariant_ call an operation is in.
CvOf(o, ph) ==
  CASE o.kind = "put" -> "NOT_FULL"
    [] o.kind = "get" -> "NOT_EMPTY"
    [] o.kind = "wait" /\ o.ev = "HIGH_WATER_MARK" ->
         IF ph = 1 THEN "LOW_WATER_MARK" ELSE "HIGH_WATER_MARK"
    [] o.kind = "wait" /\ o.ev = "LOW_WATER_MARK" ->
         IF ph = 1 THEN "HIGH_WATER_MARK" ELSE "LOW_WATER_MARK"
    [] OTHER -> o.ev

\* The invariants of waitUntilEmpty_ .. waitUntilNotFull_ and of the second
\* sub-wait of the watermark waits.
EventHolds(ev) ==
  CASE ev = "EMPTY" -> q_ = <<>>
    [] ev = "NOT_EMPTY" -> q_ # <<>>
    [] ev = "FULL" -> Len(q_) >= maxSize_
    [] ev = "NOT_FULL" -> Len(q_) < maxSize_
    [] ev = "HIGH_WATER_MARK" -> Len(q_) > highWaterMark_
    [] ev = "LOW_WATER_MARK" -> Len(q_) <= lowWaterMark_

\* Mutant: the first sub-wait is passed whatever the latch.
LatchHolds_Ignored(ev) == TRUE
\* The invariant of the first sub-wait of the watermark waits.
LatchHolds(ev) ==
  IF ev = "HIGH_WATER_MARK" THEN ~highWaterCrossed_ ELSE highWaterCrossed_

\* The timeout the current Condition::wait(timeout) is called with: "NEG"
\* (Semaphore::down()) or not (epoll with a timeout, then the read).
\* waitUntilHighWaterMark_ passes timeout to both sub-waits;
\* waitUntilLowWaterMark_ passes max(0, now - start) to the second.
WaitTimeout(o, ph) ==
  IF o.kind = "wait" /\ o.ev = "LOW_WATER_MARK" /\ ph = 2 THEN "ELAPSED" ELSE o.tmo

\* Mutant: the loops suspend whatever the timeout.
LoopChoices_AlwaysSuspend(t, o) == {"suspend"}
\* The loops around waitUntilNotFull_ / waitUntilNotEmpty_ in executePut_ and
\* get: with the invariant false, does the thread suspend (again) or give up?
\* timeout < 0: suspend.  timeout = 0: now < deadline is false at once.
\* timeout > 0: suspend; once the thread has waited, now < deadline may hold
\* or not.
LoopChoices(t, o) ==
  CASE o.tmo = "NEG" -> {"suspend"}
    [] o.tmo = "ZERO" -> {"return"}
    [] o.tmo = "POS" ->
         IF waited[t] THEN {"suspend", "return"} ELSE {"suspend"}

\* waitForInvariant_ itself: while (!invariant() && haveTime).
WaitChoices(t) == IF haveTime[t] THEN {"suspend"} ELSE {"return"}

\* Mutant: a woken producer appends without looking at the size again.
PutMayProceed_NoRecheck(t) == Len(q_) < maxSize_ \/ waited[t]
\* executePut_: past the loops, q_.size() < maxSize_
PutMayProceed(t) == Len(q_) < maxSize_

\* The number of watermark notifications issued before the Queue::wait call
\* that thread t is in began.
Began(t, o) ==
  IF o.kind # "wait" THEN 0 ELSE IF pc[t] = "idle" THEN Len(wmLog) ELSE began[t]

\* A call starts: it is counted, and a put takes the next item.
Called(t, o) ==
  /\ opsLeft' = IF pc[t] = "idle" THEN opsLeft - 1 ELSE opsLeft
  /\ nextItem' = IF pc[t] = "idle" /\ o.kind = "put" THEN nextItem + 1 ELSE nextItem
  /\ UNCHANGED <<constructed, dst, guards, epollSet, toggle, sync_, toNotify, maxSize_, lowWaterMark_, highWaterMark_, trace, s>>

\* The operation returns (the Lock_'s destructor releases sync_).
Return(t, o, value) ==
  /\ last' = Result(o.kind, o.tmo, o.ev, value, waited[t], Began(t, o))
  /\ began' = [began EXCEPT ![t] = 0]
  /\ pc' = [pc EXCEPT ![t] = "idle"]
  /\ op' = [op EXCEPT ![t] = NoOp]
  /\ phase' = [phase EXCEPT ![t] = 1]
  /\ waited' = [waited EXCEPT ![t] = FALSE]
  /\ haveTime' = [haveTime EXCEPT ![t] = TRUE]

\* waitForInvariant_: lock.unlock(), on the way into condition.wait(timeout).
Suspend(t, o, newPhase) ==
  /\ pc' = [pc EXCEPT ![t] = "wait"]
  /\ op' = [op EXCEPT ![t] = o]
  /\ phase' = [phase EXCEPT ![t] = newPhase]
  /\ waited' = [waited EXCEPT ![t] = TRUE]
  /\ began' = [began EXCEPT ![t] = Began(t, o)]
  /\ haveTime' = [haveTime EXCEPT ![t] = TRUE]
  /\ UNCHANGED last
  /\ noMutation

\* executePut_
PutLocked(t, menu) ==
  \E o \in Entering(t, menu) :
    /\ o.kind = "put"
    /\ IF PutMayProceed(t)
       THEN putItem(o.item) /\ Return(t, o, TRUE)
       ELSE \E c \in LoopChoices(t, o) :
              IF c = "suspend" THEN Suspend(t, o, 1) ELSE noMutation /\ Return(t, o, FALSE)
    /\ Called(t, o)

\* get() and get(result, timeout)
GetLocked(t, menu) ==
  \E o \in Entering(t, menu) :
    /\ o.kind = "get"
    /\ IF q_ # <<>>
       THEN getItem(t) /\ Return(t, o, TRUE)
       ELSE \E c \in LoopChoices(t, o) :
              IF c = "suspend" THEN Suspend(t, o, 1) ELSE noMutation /\ Return(t, o, FALSE)
    /\ Called(t, o)

GetAllLocked(t, menu) ==
  \E o \in Entering(t, menu) :
    /\ o.kind = "getAll"
    /\ getAllItems(t)
    /\ Return(t, o, TRUE)
    /\ Called(t, o)

ClearLocked(t, menu) ==
  \E o \in Entering(t, menu) :
    /\ o.kind = "clear"
    /\ clearItems
    /\ Return(t, o, TRUE)
    /\ Called(t, o)

\* Queue::wait for EMPTY, NOT_EMPTY, FULL, NOT_FULL: one waitForInvariant_.
WaitLocked(t, menu) ==
  \E o \in Entering(t, menu) :
    /\ o.kind = "wait"
    /\ o.ev \in {"EMPTY", "NOT_EMPTY", "FULL", "NOT_FULL"}
    /\ IF EventHolds(o.ev)
       THEN noMutation /\ Return(t, o, TRUE)
       ELSE IF "suspend" \in WaitChoices(t)
            THEN Suspend(t, o, 1)
            ELSE noMutation /\ Return(t, o, FALSE)
    /\ Called(t, o)

\* waitUntilHighWaterMark_ / waitUntilLowWaterMark_: a waitForInvariant_ on the
\* latch, then one on the size.  The first returning true leads into the
\* second without sync_ being released.
WatermarkWaitLocked(t, menu) ==
  \E o \in Entering(t, menu) :
    /\ o.kind = "wait"
    /\ o.ev \in {"HIGH_WATER_MARK", "LOW_WATER_MARK"}
    /\ IF phase[t] = 1 /\ ~LatchHolds(o.ev)
       THEN IF "suspend" \in WaitChoices(t)
            THEN Suspend(t, o, 1)
            ELSE noMutation /\ Return(t, o, FALSE)
       ELSE IF EventHolds(o.ev)
            THEN noMutation /\ Return(t, o, TRUE)
            ELSE IF phase[t] = 1 \/ "suspend" \in WaitChoices(t)
                 THEN Suspend(t, o, 2)
                 ELSE noMutation /\ Return(t, o, FALSE)
    /\ Called(t, o)

\* Condition::wait(timeout), first half: s(new Semaphore); queue_.push_back(s)
Enqueue(t) ==
  /\ pc[t] = "wait"
  /\ FreeSems # {}
  /\ s' = [s EXCEPT ![t] = NewSem]
  /\ queue_' = [queue_ EXCEPT ![CvOf(op[t], phase[t])] = Append(@, NewSem)]
  /\ pc' = [pc EXCEPT ![t] = "down"]
  /\ UNCHANGED <<constructed, dst, guards, epollSet, toggle, sync_, toNotify, maxSize_, lowWaterMark_, highWaterMark_, q_,
                 highWaterCrossed_, queueState_, sem, observers_, acking>>
  /\ UNCHANGED <<op, haveTime, phase, waited, began, histVars>>

\* Semaphore::down() and the successful Semaphore::down(timeout): the read
\* takes one from the counter; Condition::wait returns true.
Down(t) ==
  /\ pc[t] = "down"
  /\ sem[s[t]] > 0
  /\ sem' = [sem EXCEPT ![s[t]] = @ - 1]
  /\ s' = [s EXCEPT ![t] = NoSem]
  /\ haveTime' = [haveTime EXCEPT ![t] = TRUE]
  /\ pc' = [pc EXCEPT ![t] = "relock"]
  /\ UNCHANGED <<constructed, dst, guards, epollSet, toggle, sync_, toNotify, maxSize_, lowWaterMark_, highWaterMark_, q_,
                 highWaterCrossed_, queueState_, queue_, observers_, acking>>
  /\ UNCHANGED <<op, phase, waited, began, histVars>>

\* Semaphore::down(timeout), timeout >= 0: the epoll wait ends with the fd not
\* readable; Condition::wait returns false.  The handle stays in queue_.
TimedOut(t) ==
  /\ pc[t] = "down"
  /\ WaitTimeout(op[t], phase[t]) # "NEG"
  /\ sem[s[t]] = 0
  /\ s' = [s EXCEPT ![t] = NoSem]
  /\ haveTime' = [haveTime EXCEPT ![t] = FALSE]
  /\ pc' = [pc EXCEPT ![t] = "relock"]
  /\ UNCHANGED <<queueVars, op, phase, waited, began, histVars>>

NextConc ==
  \E t \in Threads :
    \/ PutLocked(t, ConcOps)
    \/ GetLocked(t, ConcOps)
    \/ GetAllLocked(t, ConcOps)
    \/ ClearLocked(t, ConcOps)
    \/ Enqueue(t)
    \/ Down(t)
    \/ TimedOut(t)

SpecConc == InitConc /\ [][NextConc]_vars

NextWait ==
  \E t \in WaitThreads :
    \/ WaitLocked(t, WaitOps)
    \/ WatermarkWaitLocked(t, WaitOps)
    \/ PutLocked(t, WaitOps)
    \/ GetLocked(t, WaitOps)
    \/ GetAllLocked(t, WaitOps)
    \/ ClearLocked(t, WaitOps)
    \/ Enqueue(t)
    \/ Down(t)
    \/ TimedOut(t)

SpecWait == InitWait /\ [][NextWait]_vars

(***************************************************************************)
(* SpecMarks: one thread in Queue::wait for the two watermark events, and    *)
(* the others taking the size across both marks, more than once.           *)
(***************************************************************************)
InitMarks ==
  /\ \E maxSize \in 1..MaxConcSize, lowWaterMark, highWaterMark \in 0..MaxConcSize,
        fdOk \in CreateEventFdOutcomes :
       /\ ConstructorLegal(maxSize, lowWaterMark, highWaterMark)
       /\ InitQueue(maxSize, lowWaterMark, highWaterMark, fdOk)
  /\ InitThreads
  /\ InitHist(MaxMarkOps)

\* The calls a thread of SpecMarks makes: one thread waits, the others change
\* the size.
MarkOps(t) ==
  IF t = Main
  THEN [kind : {"wait"}, tmo : Timeouts, ev : {"HIGH_WATER_MARK", "LOW_WATER_MARK"},
        item : {0}]
  ELSE [kind : {"put", "get"}, tmo : {"ZERO"}, ev : {"EMPTY"}, item : {0}]
         \cup [kind : {"getAll", "clear"}, tmo : {"NEG"}, ev : {"EMPTY"}, item : {0}]

NextMarks ==
  \E t \in WaitThreads :
    \/ WatermarkWaitLocked(t, MarkOps(t))
    \/ PutLocked(t, MarkOps(t))
    \/ GetLocked(t, MarkOps(t))
    \/ GetAllLocked(t, MarkOps(t))
    \/ ClearLocked(t, MarkOps(t))
    \/ Enqueue(t)
    \/ Down(t)
    \/ TimedOut(t)

SpecMarks == InitMarks /\ [][NextMarks]_vars

(***************************************************************************)
(* SpecMove: one caller; the Queue is moved from, by move construction or  *)
(* by move assignment, and used again afterwards.  dst is the destination, *)
(* with the watermark notifications the source had issued by then.        *)
(* std::move(other.q_) leaves other.q_ empty (the library's deque does; the *)
(* tests expect size 0).  Neither move touches the Conditions.             *)
(***************************************************************************)
InitMove ==
  /\ \E maxSize \in 1..MaxMoveSize, lowWaterMark, highWaterMark \in 0..MaxMoveSize,
        fdOk \in CreateEventFdOutcomes :
       /\ ConstructorLegal(maxSize, lowWaterMark, highWaterMark)
       /\ InitQueue(maxSize, lowWaterMark, highWaterMark, fdOk)
  /\ InitThreads
  /\ InitHist(MaxMoveOps)

\* Mutant: the source keeps its latch.
MovedFrom_KeepsLatch(tog) ==
  [q_ |-> <<>>, highWaterCrossed_ |-> highWaterCrossed_,
   queueState_ |-> setState(tog, "WRITE_ONLY")]
\* The source after either move: q_ moved from, other.highWaterCrossed_ =
\* false, other.queueState_.setState(WRITE_ONLY).
MovedFrom(tog) ==
  [q_ |-> <<>>, highWaterCrossed_ |-> FALSE,
   queueState_ |-> setState(tog, "WRITE_ONLY")]

\* operator=(Queue&&): the destination's toggle is set from the size.
AssignedToggle(tog, q, maxSize) ==
  IF Len(q) = 0 THEN setState(tog, "WRITE_ONLY")
  ELSE IF Len(q) < maxSize THEN setState(tog, "READ_WRITE")
  ELSE setState(tog, "READ_ONLY")

\* What a move does to the source, and what it leaves alone.
MoveFrame(kind) ==
  /\ q_' = MovedFrom(queueState_).q_
  /\ highWaterCrossed_' = MovedFrom(queueState_).highWaterCrossed_
  /\ queueState_' = MovedFrom(queueState_).queueState_
  /\ last' = Result(kind, "NEG", "EMPTY", TRUE, FALSE, 0)
  /\ opsLeft' = opsLeft - 1
  /\ fired' = {}
  /\ UNCHANGED <<constructed, guards, epollSet, toggle, sync_, toNotify, maxSize_, lowWaterMark_, highWaterMark_,
                 queue_, sem, observers_, acking, threadVars>>
  /\ UNCHANGED <<putLog, got, cleared, wmLog, trace, nextItem>>

\* Queue(Queue&& other): the members named in the initializer list are taken
\* from other; queueState_ is default-constructed.
MoveConstruct ==
  /\ CanCall
  /\ dst' = [exists |-> TRUE, maxSize_ |-> maxSize_, lowWaterMark_ |-> lowWaterMark_,
             highWaterMark_ |-> highWaterMark_, q_ |-> q_,
             highWaterCrossed_ |-> highWaterCrossed_, queueState_ |-> NewToggle,
             wmSeen |-> wmLog]
  /\ MoveFrame("moveConstruct")

\* operator=(Queue&& other), on a destination in any state of its toggle.
MoveAssign ==
  /\ CanCall
  /\ \E state \in {"READ_ONLY", "WRITE_ONLY", "READ_WRITE"} :
       dst' = [exists |-> TRUE, maxSize_ |-> maxSize_, lowWaterMark_ |-> lowWaterMark_,
               highWaterMark_ |-> highWaterMark_, q_ |-> q_,
               highWaterCrossed_ |-> highWaterCrossed_,
               queueState_ |-> AssignedToggle(setState(NewToggle, state), q_, maxSize_),
               wmSeen |-> wmLog]
  /\ MoveFrame("moveAssign")

NextMove == MoveConstruct \/ MoveAssign \/ Put \/ Get \/ GetAll \/ Clear

SpecMove == InitMove /\ [][NextMove]_vars

(***************************************************************************)
(* SpecObserve: observers.  Queue::observe, ack and stopObserving go to    *)
(* the Condition selectCv_ picks and take that Condition's mutex only, not *)
(* sync_.  Condition::ack releases the mutex around s->down(), so the      *)
(* handle is taken from the semaphore in one step and pushed back on       *)
(* queue_ in another.  A call with an fd that lookup_ does not find throws *)
(* NoSuchItem and changes nothing.                                         *)
(***************************************************************************)
\* Mutant: the two watermark events are exchanged.
selectCv_Swapped(eventType) ==
  CASE eventType = "HIGH_WATER_MARK" -> "LOW_WATER_MARK"
    [] eventType = "LOW_WATER_MARK" -> "HIGH_WATER_MARK"
    [] OTHER -> eventType
selectCv_(eventType) ==
  CASE eventType = "EMPTY" -> "EMPTY"
    [] eventType = "NOT_EMPTY" -> "NOT_EMPTY"
    [] eventType = "FULL" -> "FULL"
    [] eventType = "NOT_FULL" -> "NOT_FULL"
    [] eventType = "HIGH_WATER_MARK" -> "HIGH_WATER_MARK"
    [] eventType = "LOW_WATER_MARK" -> "LOW_WATER_MARK"

InitObserve ==
  /\ \E maxSize \in 1..MaxConcSize, lowWaterMark, highWaterMark \in 0..MaxConcSize,
        fdOk \in CreateEventFdOutcomes :
       /\ ConstructorLegal(maxSize, lowWaterMark, highWaterMark)
       /\ InitQueue(maxSize, lowWaterMark, highWaterMark, fdOk)
  /\ InitThreads
  /\ InitHist(MaxObserveOps)

\* What an observer's call leaves alone.
ObserverFrame(kind, ev) ==
  /\ last' = Result(kind, "NEG", ev, TRUE, FALSE, 0)
  /\ opsLeft' = opsLeft - 1
  /\ fired' = {}
  /\ UNCHANGED <<constructed, dst, guards, epollSet, toggle, sync_, toNotify, maxSize_, lowWaterMark_, highWaterMark_, q_,
                 highWaterCrossed_, queueState_, threadVars>>
  /\ UNCHANGED <<putLog, got, cleared, wmLog, trace, nextItem>>

\* Condition::observe: s(new Semaphore); queue_.push_back(s);
\* observers_.insert(make_pair(s->fd(), s)); return s->fd()
Observe ==
  /\ CanCall
  /\ FreeSems # {}
  /\ \E ev \in EventTypes :
       /\ queue_' = [queue_ EXCEPT ![selectCv_(ev)] = Append(@, NewSem)]
       /\ observers_' = [observers_ EXCEPT ![selectCv_(ev)] = @ \cup {NewSem}]
       /\ ObserverFrame("observe", ev)
  /\ UNCHANGED <<sem, acking>>

\* Condition::ack, first half: s = lookup_(fd)->second; lock.unlock();
\* s->down().  On an fd that is not readable the caller blocks.
AckDown ==
  /\ CanCall
  /\ \E ev \in EventTypes : \E fd \in observers_[selectCv_(ev)] :
       /\ sem[fd] > 0
       /\ sem' = [sem EXCEPT ![fd] = @ - 1]
       /\ acking' = [acking EXCEPT ![selectCv_(ev)] = @ \cup {fd}]
       /\ ObserverFrame("ack", ev)
  /\ UNCHANGED <<queue_, observers_>>

\* Condition::ack, second half: lock.lock(); queue_.push_back(s)
AckPush ==
  /\ \E e \in EventTypes : \E fd \in acking[e] :
       /\ queue_' = [queue_ EXCEPT ![e] = Append(@, fd)]
       /\ acking' = [acking EXCEPT ![e] = @ \ {fd}]
  /\ UNCHANGED <<constructed, dst, guards, epollSet, toggle, sync_, toNotify, maxSize_, lowWaterMark_, highWaterMark_, q_,
                 highWaterCrossed_, queueState_, sem, observers_>>
  /\ UNCHANGED <<threadVars, histVars>>

\* Condition::stopObserving: observers_.erase(lookup_(fd)).  The semaphore is
\* destroyed with its last handle.
StopObserving ==
  /\ CanCall
  /\ \E ev \in EventTypes : \E fd \in observers_[selectCv_(ev)] :
       /\ observers_' = [observers_ EXCEPT ![selectCv_(ev)] = @ \ {fd}]
       /\ sem' = [sem EXCEPT ![fd] =
                    IF \/ Enqueued(fd)
                       \/ \E e \in EventTypes : fd \in acking[e]
                       \/ \E t \in Threads : s[t] = fd
                    THEN @ ELSE 0]
       /\ ObserverFrame("stopObserving", ev)
  /\ UNCHANGED <<queue_, acking>>

\* Condition::lookup_: observers_.find(fd) finds the fd.
lookup_(e, fd) == fd \in observers_[e]

\* What a call that throws NoSuchItem leaves behind: the call and its fd.
NoSuchItem(kind, ev, fd) ==
  /\ last' = [kind |-> kind, tmo |-> "NEG", ev |-> ev, value |-> FALSE,
              waited |-> FALSE, began |-> 0, fd |-> fd]
  /\ opsLeft' = opsLeft - 1
  /\ fired' = {}
  /\ UNCHANGED <<constructed, dst, guards, epollSet, toggle, sync_, toNotify, maxSize_, lowWaterMark_, highWaterMark_, q_,
                 highWaterCrossed_, queueState_, threadVars>>
  /\ UNCHANGED <<putLog, got, cleared, wmLog, trace, nextItem>>

\* Condition::ack(fd): lookup_(fd) throws NoSuchItem.
AckNoSuchItem ==
  /\ CanCall
  /\ \E ev \in EventTypes : \E fd \in SemIds :
       /\ ~lookup_(selectCv_(ev), fd)
       /\ NoSuchItem("ack", ev, fd)
  /\ UNCHANGED <<queue_, sem, observers_, acking>>

\* Mutant: stopObserving on an fd that is not registered erases an observer
\* that is.
StopObservingNoSuchItem_Erases ==
  /\ CanCall
  /\ \E ev \in EventTypes : \E fd \in SemIds :
       /\ ~lookup_(selectCv_(ev), fd)
       /\ observers_' = [observers_ EXCEPT ![selectCv_(ev)] =
                           @ \ {CHOOSE other \in @ \cup {fd} : TRUE}]
       /\ NoSuchItem("stopObserving", ev, fd)
  /\ UNCHANGED <<queue_, sem, acking>>
\* Condition::stopObserving(fd): lookup_(fd) throws NoSuchItem.
StopObservingNoSuchItem ==
  /\ CanCall
  /\ \E ev \in EventTypes : \E fd \in SemIds :
       /\ ~lookup_(selectCv_(ev), fd)
       /\ NoSuchItem("stopObserving", ev, fd)
  /\ UNCHANGED <<queue_, sem, observers_, acking>>

NextObserve ==
  \/ Observe \/ AckDown \/ AckPush \/ StopObserving
  \/ Put \/ Get \/ GetAll \/ Clear

SpecObserve == InitObserve /\ [][NextObserve]_vars

(***************************************************************************)
(* SpecLookup: the observer calls of a Queue(1) with any fd, registered    *)
(* with the Condition of the call or not.                                  *)
(***************************************************************************)
InitLookup ==
  /\ InitQueue(1, 0, 1, TRUE)
  /\ InitThreads
  /\ InitHist(MaxLookupOps)

NextLookup ==
  \/ Observe \/ AckDown \/ AckPush \/ StopObserving
  \/ AckNoSuchItem \/ StopObservingNoSuchItem
  \/ Put \/ Get

SpecLookup == InitLookup /\ [][NextLookup]_vars

(***************************************************************************)
(* SpecCond: one Condition on its own, as in ConditionTests.  Threads call *)
(* wait() and wait(timeout); the test's main thread calls notifyOne,       *)
(* observe, ack and stopObserving.  Each call runs under the Condition's   *)
(* sync_; the waiter then sits in Semaphore::down outside it.              *)
(***************************************************************************)
\* The Condition under test.
cv == "NOT_EMPTY"

InitCond ==
  /\ InitQueue(MaxConcSize, 0, MaxConcSize, TRUE)
  /\ InitThreads
  /\ InitHist(MaxCondOps)

\* Threads inside Condition::wait whose semaphore has not been signalled.
BlockedOn(e) ==
  {t \in Threads : pc[t] = "down" /\ op[t].kind = "cvWait" /\ op[t].ev = e /\ sem[s[t]] = 0}

\* What a call on the Condition leaves alone.
CondFrame ==
  /\ fired' = {}
  /\ UNCHANGED <<constructed, dst, guards, epollSet, toggle, sync_, toNotify, maxSize_, lowWaterMark_, highWaterMark_, q_,
                 highWaterCrossed_, queueState_>>
  /\ UNCHANGED <<haveTime, phase, waited, began>>
  /\ UNCHANGED <<putLog, got, cleared, wmLog, trace, nextItem>>

\* Condition::wait() and Condition::wait(timeout), up to lock.unlock():
\* s(new Semaphore); queue_.push_back(s).  wait() is the timeout "NEG":
\* Semaphore::down(timeout) with timeout < 0 is down().
CondWait(t) ==
  /\ pc[t] = "idle"
  /\ opsLeft > 0
  /\ FreeSems # {}
  /\ \E tmo \in Timeouts :
       op' = [op EXCEPT ![t] = [kind |-> "cvWait", tmo |-> tmo, ev |-> cv, item |-> 0]]
  /\ s' = [s EXCEPT ![t] = NewSem]
  /\ queue_' = [queue_ EXCEPT ![cv] = Append(@, NewSem)]
  /\ pc' = [pc EXCEPT ![t] = "down"]
  /\ opsLeft' = opsLeft - 1
  /\ UNCHANGED <<sem, observers_, acking, last>>
  /\ CondFrame

\* s->down() returns, s->down(timeout) returns true: the read takes one from
\* the counter, and the waiter's handle goes with the call.
CondWake(t) ==
  /\ pc[t] = "down"
  /\ op[t].kind = "cvWait"
  /\ sem[s[t]] > 0
  /\ sem' = [sem EXCEPT ![s[t]] = IF Enqueued(s[t]) THEN @ - 1 ELSE 0]
  /\ s' = [s EXCEPT ![t] = NoSem]
  /\ pc' = [pc EXCEPT ![t] = "idle"]
  /\ op' = [op EXCEPT ![t] = NoOp]
  /\ last' = Result("cvWait", op[t].tmo, cv, TRUE, TRUE, 0)
  /\ UNCHANGED <<queue_, observers_, acking, opsLeft>>
  /\ CondFrame

\* Mutant: the epoll wait may end with nothing although the fd is readable.
CondTimedOut_Signalled(t) ==
  /\ pc[t] = "down"
  /\ op[t].kind = "cvWait"
  /\ op[t].tmo # "NEG"
  /\ pc' = [pc EXCEPT ![t] = "expired"]
  /\ UNCHANGED <<queue_, sem, observers_, acking, opsLeft, s, op, last>>
  /\ CondFrame
\* s->down(timeout), timeout >= 0: EpollSet::wait(timeout) returns false, the
\* fd did not become readable within the timeout.
CondTimedOut(t) ==
  /\ pc[t] = "down"
  /\ op[t].kind = "cvWait"
  /\ op[t].tmo # "NEG"
  /\ sem[s[t]] = 0
  /\ pc' = [pc EXCEPT ![t] = "expired"]
  /\ UNCHANGED <<queue_, sem, observers_, acking, opsLeft, s, op, last>>
  /\ CondFrame

\* whenReady calls onTimeout: Condition::wait(timeout) returns false.  Nothing
\* takes the handle out of queue_; a handle that has been popped since goes
\* with the call.
CondReturnFalse(t) ==
  /\ pc[t] = "expired"
  /\ sem' = [sem EXCEPT ![s[t]] = IF Enqueued(s[t]) THEN @ ELSE 0]
  /\ s' = [s EXCEPT ![t] = NoSem]
  /\ pc' = [pc EXCEPT ![t] = "idle"]
  /\ op' = [op EXCEPT ![t] = NoOp]
  /\ last' = Result("cvWait", op[t].tmo, cv, FALSE, TRUE, 0)
  /\ UNCHANGED <<queue_, observers_, acking, opsLeft>>
  /\ CondFrame

\* Mutant: the back handle is signalled and stays in queue_.
notifyOne_NoPop(e) ==
  /\ sem' = IF queue_[e] = <<>> THEN sem
            ELSE [sem EXCEPT ![queue_[e][Len(queue_[e])]] = @ + 1]
  /\ UNCHANGED <<queue_, observers_, acking>>
\* Condition::notifyOne:
\*   if (queue_.size()) { queue_.back()->up(); queue_.pop_back(); }
\* A handle nobody else holds is destroyed when it is popped.
notifyOne(e) ==
  /\ queue_' = [queue_ EXCEPT ![e] = SubSeq(@, 1, Len(@) - 1)]
  /\ sem' = IF queue_[e] = <<>> THEN sem
            ELSE LET back == queue_[e][Len(queue_[e])]
                 IN [sem EXCEPT ![back] =
                       IF Referenced(back) \/ Occurrences(queue_[e], back) > 1
                       THEN @ + 1 ELSE 0]
  /\ UNCHANGED <<observers_, acking>>

NotifyOne ==
  /\ opsLeft > 0
  /\ notifyOne(cv)
  /\ last' = Result("notifyOne", "NEG", cv, TRUE, FALSE, 0)
  /\ opsLeft' = opsLeft - 1
  /\ UNCHANGED <<pc, op, s>>
  /\ CondFrame

\* Condition::notifyAll on the Condition under test.
NotifyAll ==
  /\ opsLeft > 0
  /\ notifyAll({cv})
  /\ last' = Result("notifyAll", "NEG", cv, TRUE, FALSE, 0)
  /\ opsLeft' = opsLeft - 1
  /\ UNCHANGED <<pc, op, s>>
  /\ CondFrame

\* observe and stopObserving on the Condition under test.
CondObserve == Observe /\ last'.ev = cv
CondStopObserving == StopObserving /\ last'.ev = cv

\* Condition::ack(fd) by a thread, up to lock.unlock():
\* s = lookup_(fd)->second, for an fd that is registered.
CondAck(t) ==
  /\ pc[t] = "idle"
  /\ opsLeft > 0
  /\ \E fd \in observers_[cv] : s' = [s EXCEPT ![t] = fd]
  /\ op' = [op EXCEPT ![t] = [kind |-> "ack", tmo |-> "NEG", ev |-> cv, item |-> 0]]
  /\ pc' = [pc EXCEPT ![t] = "ackdown"]
  /\ opsLeft' = opsLeft - 1
  /\ UNCHANGED <<queue_, sem, observers_, acking, last>>
  /\ CondFrame

\* Mutant: ack does not wait for the fd to be readable.
CondAckDown_NoWait(t) ==
  /\ pc[t] = "ackdown"
  /\ sem' = [sem EXCEPT ![s[t]] = IF @ > 0 THEN @ - 1 ELSE @]
  /\ pc' = [pc EXCEPT ![t] = "ackpush"]
  /\ UNCHANGED <<queue_, observers_, acking, opsLeft, s, op, last>>
  /\ CondFrame
\* Condition::ack: s->down() returns, one is taken from the counter.
CondAckDown(t) ==
  /\ pc[t] = "ackdown"
  /\ sem[s[t]] > 0
  /\ sem' = [sem EXCEPT ![s[t]] = @ - 1]
  /\ pc' = [pc EXCEPT ![t] = "ackpush"]
  /\ UNCHANGED <<queue_, observers_, acking, opsLeft, s, op, last>>
  /\ CondFrame

\* Mutant: ack returns without pushing the handle.
CondAckPush_NoRearm(t) ==
  /\ pc[t] = "ackpush"
  /\ sem' = [sem EXCEPT ![s[t]] =
               IF Enqueued(s[t]) \/ s[t] \in observers_[cv] THEN @ ELSE 0]
  /\ s' = [s EXCEPT ![t] = NoSem]
  /\ pc' = [pc EXCEPT ![t] = "idle"]
  /\ op' = [op EXCEPT ![t] = NoOp]
  /\ last' = Result("ack", "NEG", cv, TRUE, TRUE, 0)
  /\ UNCHANGED <<queue_, observers_, acking, opsLeft>>
  /\ CondFrame
\* Condition::ack: lock.lock(); queue_.push_back(s); return.
CondAckPush(t) ==
  /\ pc[t] = "ackpush"
  /\ queue_' = [queue_ EXCEPT ![cv] = Append(@, s[t])]
  /\ s' = [s EXCEPT ![t] = NoSem]
  /\ pc' = [pc EXCEPT ![t] = "idle"]
  /\ op' = [op EXCEPT ![t] = NoOp]
  /\ last' = Result("ack", "NEG", cv, TRUE, TRUE, 0)
  /\ UNCHANGED <<sem, observers_, acking, opsLeft>>
  /\ CondFrame

NextCond ==
  \/ \E t \in Threads : CondWait(t) \/ CondWake(t) \/ CondTimedOut(t) \/ CondReturnFalse(t)
  \/ NotifyOne \/ NotifyAll
  \/ \E t \in Threads : CondAck(t) \/ CondAckDown(t) \/ CondAckPush(t)
  \/ CondObserve \/ CondStopObserving

SpecCond == InitCond /\ [][NextCond]_vars

InitCondFair ==
  /\ InitQueue(MaxConcSize, 0, MaxConcSize, TRUE)
  /\ InitThreads
  /\ InitHist(MaxFairOps)

\* SpecCond with the scheduler's fairness: a thread whose semaphore has been
\* signalled leaves Semaphore::down, and an ack that has taken its signal
\* gets the Condition's sync_ and pushes its handle.
SpecCondFair ==
  /\ InitCondFair /\ [][NextCond]_vars
  /\ \A t \in Threads : WF_vars(CondWake(t)) /\ WF_vars(CondReturnFalse(t))
  /\ \A t \in Threads : WF_vars(CondAckDown(t)) /\ WF_vars(CondAckPush(t))

(***************************************************************************)
(* SpecGuard: Condition::Guard and Queue::Guard objects of one thread, on  *)
(* the Conditions of a Queue: construction, move construction, move        *)
(* assignment, stop() and destruction.  A Condition::Guard holds c_ (its   *)
(* Condition, named by the event it stands for) and fd_; a Queue::Guard    *)
(* holds q_, t_ and fd_.                                                   *)
(***************************************************************************)
\* The Conditions the Guards are made on.
GuardEvents == {"NOT_EMPTY", "NOT_FULL"}

InitGuard ==
  /\ InitQueue(1, 0, 1, TRUE)
  /\ InitThreads
  /\ InitHist(MaxGuardOps)

\* Guard::active
active(G) ==
  IF G.class = "Condition::Guard" THEN G.c_ # "nullptr" ELSE G.q_ # "nullptr"

\* The Condition that the Guard's ack() and stop() call: *c_ for a
\* Condition::Guard, q_->selectCv_(t_) for a Queue::Guard.
GuardCv(G) == IF G.class = "Condition::Guard" THEN G.c_ ELSE selectCv_(G.t_)

\* What a call on a Guard leaves alone; the call and its Guards are kept.
GuardFrame(kind, g, other, value) ==
  /\ last' = [kind |-> kind, tmo |-> "NEG", ev |-> "EMPTY", value |-> value,
              waited |-> FALSE, began |-> 0, g |-> g, other |-> other]
  /\ fired' = {}
  /\ UNCHANGED <<constructed, dst, epollSet, toggle, sync_, toNotify, maxSize_, lowWaterMark_, highWaterMark_, q_,
                 highWaterCrossed_, queueState_, acking, threadVars>>
  /\ UNCHANGED <<putLog, got, cleared, wmLog, trace, nextItem>>

\* Guard(Condition& c): c_(&c), fd_(c_->observe())
ConditionGuard(g) ==
  /\ CanCall
  /\ guards[g].class = "none"
  /\ FreeSems # {}
  /\ \E c \in GuardEvents :
       /\ guards' = [guards EXCEPT ![g] =
                       [class |-> "Condition::Guard", c_ |-> c, q_ |-> "nullptr",
                        t_ |-> "EMPTY", fd_ |-> NewSem]]
       /\ queue_' = [queue_ EXCEPT ![c] = Append(@, NewSem)]
       /\ observers_' = [observers_ EXCEPT ![c] = @ \cup {NewSem}]
  /\ opsLeft' = opsLeft - 1
  /\ UNCHANGED sem
  /\ GuardFrame("Guard", g, g, TRUE)

\* Guard(Queue& queue, QueueEventType eventType):
\*   q_(&queue), t_(eventType), fd_(q_->observe(eventType))
QueueGuard(g) ==
  /\ CanCall
  /\ guards[g].class = "none"
  /\ FreeSems # {}
  /\ \E eventType \in GuardEvents :
       /\ guards' = [guards EXCEPT ![g] =
                       [class |-> "Queue::Guard", c_ |-> "nullptr", q_ |-> "queue",
                        t_ |-> eventType, fd_ |-> NewSem]]
       /\ queue_' = [queue_ EXCEPT ![selectCv_(eventType)] = Append(@, NewSem)]
       /\ observers_' = [observers_ EXCEPT ![selectCv_(eventType)] = @ \cup {NewSem}]
  /\ opsLeft' = opsLeft - 1
  /\ UNCHANGED sem
  /\ GuardFrame("Guard", g, g, TRUE)

\* Condition::Guard(Guard&& other): c_(other.c_), fd_(other.fd_)
\*   { other.c_ = nullptr; other.fd_ = -1; }
\* Queue::Guard(Guard&& other): q_(other.q_), t_(other.t_), fd_(other.fd_)
\*   { other.q_ = nullptr; fd_ = -1; }
MoveConstructGuard(g, other) ==
  /\ CanCall
  /\ guards[g].class = "none"
  /\ guards[other].class # "none"
  /\ guards' =
       IF guards[other].class = "Condition::Guard"
       THEN [guards EXCEPT ![g] = guards[other],
                           ![other].c_ = "nullptr", ![other].fd_ = NoFd]
       ELSE [guards EXCEPT ![g] = [guards[other] EXCEPT !.fd_ = NoFd],
                           ![other].q_ = "nullptr"]
  /\ opsLeft' = opsLeft - 1
  /\ UNCHANGED <<queue_, sem, observers_>>
  /\ GuardFrame("Guard(Guard&&)", g, other, TRUE)

\* Condition::Guard::operator=(Guard&& other):
\*   if (c_ != other.c_) { c_ = other.c_; other.c_ = nullptr;
\*                         fd_ = other.fd_; other.fd_ = -1; }
\* Queue::Guard::operator=(Guard&& other): the same with q_; t_ is left as
\* it was.
MoveAssignGuard(g, other) ==
  /\ CanCall
  /\ guards[g].class # "none"
  /\ guards[other].class = guards[g].class
  /\ guards' =
       IF guards[g].class = "Condition::Guard"
       THEN IF guards[g].c_ # guards[other].c_
            THEN [guards EXCEPT ![g].c_ = guards[other].c_,
                                ![g].fd_ = guards[other].fd_,
                                ![other].c_ = "nullptr", ![other].fd_ = NoFd]
            ELSE guards
       ELSE IF guards[g].q_ # guards[other].q_
            THEN [guards EXCEPT ![g].q_ = guards[other].q_,
                                ![g].fd_ = guards[other].fd_,
                                ![other].q_ = "nullptr", ![other].fd_ = NoFd]
            ELSE guards
  /\ opsLeft' = opsLeft - 1
  /\ UNCHANGED <<queue_, sem, observers_>>
  /\ GuardFrame("Guard::operator=", g, other, TRUE)

\* Guard::stop finds nothing to do, or its stopObserving returns.
StopReturns(G) == ~active(G) \/ lookup_(GuardCv(G), G.fd_)

\* Guard::stop: if (active()) { c_->stopObserving(fd_); c_ = nullptr; fd_ = -1; }
\* on the Guard G, which becomes `after` (when stopObserving throws, nothing
\* has changed).
stop(G, after) ==
  IF active(G) /\ lookup_(GuardCv(G), G.fd_)
  THEN /\ observers_' = [observers_ EXCEPT ![GuardCv(G)] = @ \ {G.fd_}]
       /\ sem' = [sem EXCEPT ![G.fd_] = IF Enqueued(G.fd_) THEN @ ELSE 0]
       /\ after = [G EXCEPT !.c_ = "nullptr", !.q_ = "nullptr", !.fd_ = NoFd]
  ELSE /\ UNCHANGED <<observers_, sem>>
       /\ after = G

\* Guard::stop, called by the owner of the Guard.
GuardStop(g) ==
  /\ CanCall
  /\ guards[g].class # "none"
  /\ \E after \in {guards[g],
                   [guards[g] EXCEPT !.c_ = "nullptr", !.q_ = "nullptr", !.fd_ = NoFd]} :
       /\ stop(guards[g], after)
       /\ guards' = [guards EXCEPT ![g] = after]
  /\ opsLeft' = opsLeft - 1
  /\ UNCHANGED queue_
  /\ GuardFrame("Guard::stop", g, g, StopReturns(guards[g]))

\* ~Guard() { stop(); }.  An exception that leaves the destructor ends the
\* program (std::terminate): no call follows.
GuardDestroy(g) ==
  /\ CanCall
  /\ guards[g].class # "none"
  /\ \E after \in {guards[g],
                   [guards[g] EXCEPT !.c_ = "nullptr", !.q_ = "nullptr", !.fd_ = NoFd]} :
       stop(guards[g], after)
  /\ guards' = [guards EXCEPT ![g] = NoGuard]
  /\ opsLeft' = IF StopReturns(guards[g]) THEN opsLeft - 1 ELSE 0
  /\ UNCHANGED queue_
  /\ GuardFrame("~Guard", g, g, StopReturns(guards[g]))

NextGuard ==
  \E g, other \in Guards :
    \/ ConditionGuard(g)
    \/ QueueGuard(g)
    \/ MoveConstructGuard(g, other)
    \/ MoveAssignGuard(g, other)
    \/ GuardStop(g)
    \/ GuardDestroy(g)

SpecGuard == InitGuard /\ [][NextGuard]_vars

(***************************************************************************)
(* SpecSem: one Semaphore, `Semaphore s` of SemaphoreTests, and threads    *)
(* that call up(v), up(v, timeout), down() and down(timeout) on it.  The   *)
(* eventfd is a blocking one with EFD_SEMAPHORE: a read blocks while the   *)
(* counter is 0 and takes 1 from it; a write of v blocks while the counter *)
(* would pass the maximum (SemMax stands for 0xfffffffffffffffe) and fails *)
(* with EINVAL for v = 0xffffffffffffffff.  up(v, timeout) and             *)
(* down(timeout) with timeout >= 0 first wait for the fd in an EpollSet,   *)
(* and write or read once it is ready.                                     *)
(***************************************************************************)
\* The Semaphore under test, named by its fd.
SemFd == CHOOSE i \in SemIds : \A j \in SemIds : i <= j

InitSem ==
  /\ InitQueue(1, 0, 1, TRUE)
  /\ pc = [t \in Threads |-> "idle"]
  /\ op = [t \in Threads |-> NoOp]
  /\ s = [t \in Threads |-> SemFd]
  /\ haveTime = [t \in Threads |-> TRUE]
  /\ phase = [t \in Threads |-> 1]
  /\ waited = [t \in Threads |-> FALSE]
  /\ began = [t \in Threads |-> 0]
  /\ InitHist(MaxSemOps)

\* poll() on the Semaphore's eventfd.
SemReadable(count) == count > 0
SemWritable(count) == count < SemMax

\* What a step of a Semaphore call leaves alone.
SemFrame ==
  /\ fired' = {}
  /\ UNCHANGED <<constructed, dst, guards, epollSet, toggle, sync_, toNotify, maxSize_, lowWaterMark_, highWaterMark_, q_,
                 highWaterCrossed_, queueState_, queue_, observers_, acking>>
  /\ UNCHANGED <<s, haveTime, phase, waited, began>>
  /\ UNCHANGED <<putLog, got, cleared, wmLog, trace, nextItem>>

\* The call of thread t returns `value` (a SystemError is an `error`).
SemReturn(t, kind, value) ==
  /\ last' = Result(kind, op[t].tmo, "EMPTY", value, FALSE, 0)
  /\ pc' = [pc EXCEPT ![t] = "idle"]
  /\ op' = [op EXCEPT ![t] = NoOp]
  /\ UNCHANGED opsLeft

\* A thread calls up(v) (the timeout "NEG": up(v, timeout) with timeout < 0
\* is up(v)) or up(v, timeout), or down() or down(timeout).
SemCall(t) ==
  /\ pc[t] = "idle"
  /\ opsLeft > 0
  /\ \E kind \in {"up", "down"}, tmo \in Timeouts, v \in 0..(SemMax + 1) :
       /\ kind = "down" => v = 1
       /\ op' = [op EXCEPT ![t] = [kind |-> kind, tmo |-> tmo, ev |-> "EMPTY", item |-> v]]
       /\ pc' = [pc EXCEPT ![t] =
                   IF tmo # "NEG" THEN "epoll" ELSE IF kind = "up" THEN "write" ELSE "read"]
  /\ opsLeft' = opsLeft - 1
  /\ UNCHANGED <<sem, last>>
  /\ SemFrame

\* EpollSet::wait(timeout) returns true: the fd is ready, whenReady calls
\* onTriggered.
SemEpollReady(t) ==
  /\ pc[t] = "epoll"
  /\ IF op[t].kind = "up" THEN SemWritable(sem[SemFd]) ELSE SemReadable(sem[SemFd])
  /\ pc' = [pc EXCEPT ![t] = IF op[t].kind = "up" THEN "write" ELSE "read"]
  /\ UNCHANGED <<sem, op, last, opsLeft>>
  /\ SemFrame

\* Mutant: the epoll wait gives up although the fd is ready.
SemEpollTimeout_Spurious(t) ==
  /\ pc[t] = "epoll"
  /\ SemReturn(t, op[t].kind, FALSE)
  /\ UNCHANGED sem
  /\ SemFrame
\* EpollSet::wait(timeout) returns false: whenReady calls onTimeout, the
\* call returns false.
SemEpollTimeout(t) ==
  /\ pc[t] = "epoll"
  /\ IF op[t].kind = "up" THEN ~SemWritable(sem[SemFd]) ELSE ~SemReadable(sem[SemFd])
  /\ SemReturn(t, op[t].kind, FALSE)
  /\ UNCHANGED sem
  /\ SemFrame

\* Mutant: a write that does not fit fills the counter up to the maximum.
write__Truncates(t) ==
  /\ pc[t] = "write"
  /\ op[t].item <= SemMax
  /\ sem' = [sem EXCEPT ![SemFd] = IF @ + op[t].item > SemMax THEN SemMax ELSE @ + op[t].item]
  /\ SemReturn(t, "up", TRUE)
  /\ SemFrame
\* Semaphore::write_: ::write(fd_, &v, 8) returns once the counter has room
\* for v, and adds v; up returns true.
write_(t) ==
  /\ pc[t] = "write"
  /\ op[t].item <= SemMax
  /\ sem[SemFd] + op[t].item <= SemMax
  /\ sem' = [sem EXCEPT ![SemFd] = @ + op[t].item]
  /\ SemReturn(t, "up", TRUE)
  /\ SemFrame

\* Semaphore::write_ with v = 0xffffffffffffffff: EINVAL, SystemError.
write_Invalid(t) ==
  /\ pc[t] = "write"
  /\ op[t].item > SemMax
  /\ SemReturn(t, "SystemError", FALSE)
  /\ UNCHANGED sem
  /\ SemFrame

\* Mutant: a read of a counter that is 0 returns.
read__NoBlock(t) ==
  /\ pc[t] = "read"
  /\ sem' = [sem EXCEPT ![SemFd] = IF @ > 0 THEN @ - 1 ELSE 0]
  /\ SemReturn(t, "down", TRUE)
  /\ SemFrame
\* Semaphore::read_: ::read(fd_, &unused, 8) returns once the counter is
\* positive, and takes 1 from it; down returns true.
read_(t) ==
  /\ pc[t] = "read"
  /\ sem[SemFd] > 0
  /\ sem' = [sem EXCEPT ![SemFd] = @ - 1]
  /\ SemReturn(t, "down", TRUE)
  /\ SemFrame

NextSem ==
  \E t \in Threads :
    \/ SemCall(t)
    \/ SemEpollReady(t)
    \/ SemEpollTimeout(t)
    \/ write_(t)
    \/ write_Invalid(t)
    \/ read_(t)

SpecSem == InitSem /\ [][NextSem]_vars

InitSemFair ==
  /\ InitQueue(1, 0, 1, TRUE)
  /\ pc = [t \in Threads |-> "idle"]
  /\ op = [t \in Threads |-> NoOp]
  /\ s = [t \in Threads |-> SemFd]
  /\ haveTime = [t \in Threads |-> TRUE]
  /\ phase = [t \in Threads |-> 1]
  /\ waited = [t \in Threads |-> FALSE]
  /\ began = [t \in Threads |-> 0]
  /\ InitHist(MaxSemFairOps)

\* SpecSem with the scheduler's fairness and the passing of time: an epoll
\* wait returns once the fd is ready or the timeout has elapsed, and a
\* ::write or ::read that can proceed does.
SpecSemFair ==
  /\ InitSemFair /\ [][NextSem]_vars
  /\ \A t \in Threads : WF_vars(SemEpollReady(t)) /\ WF_vars(SemEpollTimeout(t))
  /\ \A t \in Threads : WF_vars(write_(t)) /\ WF_vars(write_Invalid(t)) /\ WF_vars(read_(t))

(***************************************************************************)
(* SpecEpoll: one EpollSet and the eventfds of EpollSetTests, used by one  *)
(* thread: construction (empty, or with one fd), add, modify, remove,      *)
(* clear and wait, while the eventfds are written and read.  An eventfd is *)
(* readable while its counter is positive and writable while it is below   *)
(* the maximum.  Registrations are level-triggered and repeating, the      *)
(* defaults of add.                                                        *)
(***************************************************************************)
\* The fd epoll_create1 returns.
EpollFd == MaxSems + 1

InitEpoll ==
  /\ InitQueue(1, 0, 1, TRUE)
  /\ InitThreads
  /\ InitHist(MaxEpollOps)

\* What a call on the EpollSet leaves alone.
EpollFrame ==
  /\ fired' = {}
  /\ UNCHANGED <<constructed, dst, guards, toggle, sync_, toNotify, maxSize_,
                 lowWaterMark_, highWaterMark_, q_,
                 highWaterCrossed_, queueState_, queue_, observers_, acking, threadVars>>
  /\ UNCHANGED <<putLog, got, cleared, wmLog, trace, nextItem>>

\* The call `call` on fd returns (value TRUE, or what wait returns) or
\* throws (the exception is the kind).
EpollReturn(kind, call, fd, value) ==
  last' = [kind |-> kind, tmo |-> "NEG", ev |-> "EMPTY", value |-> value,
           waited |-> FALSE, began |-> 0, call |-> call, fd |-> fd]

\* The events of fd that epoll_wait reports for a registration for `events`.
translateEpollEventFlags(fd, events) ==
  {e \in events : IF e = "READ" THEN SemReadable(sem[fd]) ELSE SemWritable(sem[fd])}

\* EpollSet::EpollSet(onExec).
EpollSetEmpty ==
  /\ epollSet.fd_ = NoFd /\ opsLeft > 0
  /\ epollSet' = [NoEpollSet EXCEPT !.fd_ = EpollFd]
  /\ EpollReturn("EpollSet", "EpollSet", NoFd, TRUE)
  /\ opsLeft' = opsLeft - 1
  /\ UNCHANGED sem
  /\ EpollFrame

\* EpollSet::EpollSet(fd, events, trigger, repeat, onExec).
EpollSetWithFd ==
  /\ epollSet.fd_ = NoFd /\ opsLeft > 0
  /\ \E fd \in EpollFds, events \in SUBSET EpollEventTypes :
       /\ events # {}
       /\ epollSet' = [NoEpollSet EXCEPT !.fd_ = EpollFd, !.numFds_ = 1,
                                         !.registered = {fd}, !.interest[fd] = events]
       /\ EpollReturn("EpollSet", "EpollSet", fd, TRUE)
  /\ opsLeft' = opsLeft - 1
  /\ UNCHANGED sem
  /\ EpollFrame

\* A method can be called: the EpollSet exists and its owner is not in wait.
EpollIdle == epollSet.fd_ # NoFd /\ ~epollSet.call.waiting /\ opsLeft > 0

\* Mutant: add registers the fd again instead of failing.
add_Again(fd, events) ==
  /\ EpollIdle
  /\ epollSet' = [epollSet EXCEPT !.registered = @ \cup {fd}, !.interest[fd] = events,
                                  !.numFds_ = @ + 1]
  /\ EpollReturn("add", "add", fd, TRUE)
  /\ opsLeft' = opsLeft - 1
  /\ UNCHANGED sem
  /\ EpollFrame
\* EpollSet::add: addEvent_ throws ItemExistsError on EEXIST, else the fd is
\* registered and numFds_ incremented.
add(fd, events) ==
  /\ EpollIdle
  /\ IF fd \in epollSet.registered
     THEN /\ EpollReturn("ItemExistsError", "add", fd, FALSE)
          /\ UNCHANGED epollSet
     ELSE /\ epollSet' = [epollSet EXCEPT !.registered = @ \cup {fd},
                                         !.interest[fd] = events,
                                         !.numFds_ = @ + 1]
          /\ EpollReturn("add", "add", fd, TRUE)
  /\ opsLeft' = opsLeft - 1
  /\ UNCHANGED sem
  /\ EpollFrame

\* EpollSet::modify: NoSuchItem on ENOENT, else the registration is replaced.
modify(fd, events) ==
  /\ EpollIdle
  /\ IF fd \notin epollSet.registered
     THEN /\ EpollReturn("NoSuchItem", "modify", fd, FALSE)
          /\ UNCHANGED epollSet
     ELSE /\ epollSet' = [epollSet EXCEPT !.interest[fd] = events]
          /\ EpollReturn("modify", "modify", fd, TRUE)
  /\ opsLeft' = opsLeft - 1
  /\ UNCHANGED sem
  /\ EpollFrame

\* EpollSet::remove: NoSuchItem on ENOENT, else the fd is taken out and
\* numFds_ decremented (it is at least the number of registered fds, so the
\* uint32_t does not wrap).
remove(fd) ==
  /\ EpollIdle
  /\ IF fd \notin epollSet.registered
     THEN /\ EpollReturn("NoSuchItem", "remove", fd, FALSE)
          /\ UNCHANGED epollSet
     ELSE /\ epollSet' = [epollSet EXCEPT !.registered = @ \ {fd},
                                         !.interest[fd] = {},
                                         !.numFds_ = @ - 1]
          /\ EpollReturn("remove", "remove", fd, TRUE)
  /\ opsLeft' = opsLeft - 1
  /\ UNCHANGED sem
  /\ EpollFrame

\* EpollSet::clear: the epoll fd is closed and a new one created; numFds_
\* and events_ are not assigned.
clear ==
  /\ EpollIdle
  /\ epollSet' = [epollSet EXCEPT !.registered = {},
                                  !.interest = [fd \in EpollFds |-> {}]]
  /\ EpollReturn("clear", "clear", NoFd, TRUE)
  /\ opsLeft' = opsLeft - 1
  /\ UNCHANGED sem
  /\ EpollFrame

\* EpollSet::wait(timeout, maxEvents) up to its first epoll_wait:
\* numEventsToPoll is maxEvents, or numFds_ when maxEvents is 0; epoll_wait
\* fails with EINVAL for 0 events, and wait throws SystemError.
wait(timeout, maxEvents) ==
  /\ EpollIdle
  /\ LET numEventsToPoll == IF maxEvents # 0 THEN maxEvents ELSE epollSet.numFds_
     IN  IF numEventsToPoll = 0
         THEN /\ EpollReturn("SystemError", "wait", NoFd, FALSE)
              /\ UNCHANGED epollSet
         ELSE /\ epollSet' = [epollSet EXCEPT !.call =
                                [waiting |-> TRUE, timeout |-> timeout,
                                 numEventsToPoll |-> numEventsToPoll, interrupted |-> 0]]
              /\ UNCHANGED last
  /\ opsLeft' = opsLeft - 1
  /\ UNCHANGED sem
  /\ EpollFrame

\* epoll_wait returns -1 with EINTR: the loop calls it again.
waitInterrupted ==
  /\ epollSet.call.waiting
  /\ epollSet.call.interrupted < MaxInterrupts
  /\ epollSet' = [epollSet EXCEPT !.call.interrupted = @ + 1]
  /\ UNCHANGED <<sem, last, opsLeft>>
  /\ EpollFrame

\* The registered fds that have an event they are registered for.
ReadyFds ==
  {fd \in epollSet.registered : translateEpollEventFlags(fd, epollSet.interest[fd]) # {}}

\* The EpollEvent wait stores for a ready fd.
EpollEvent(fd) == [fd_ |-> fd, events_ |-> translateEpollEventFlags(fd, epollSet.interest[fd])]

\* epoll_wait returns rc >= 0: up to numEventsToPoll of the ready fds, or
\* none once a timeout >= 0 has elapsed with no fd ready; events_ is
\* replaced by them and wait returns (bool)rc.
waitReturns ==
  /\ epollSet.call.waiting
  /\ \E produced \in SUBSET ReadyFds :
       /\ IF Cardinality(ReadyFds) < epollSet.call.numEventsToPoll
          THEN produced = ReadyFds
          ELSE Cardinality(produced) = epollSet.call.numEventsToPoll
       /\ produced = {} => epollSet.call.timeout # "NEG"
       /\ epollSet' = [epollSet EXCEPT !.events_ = {EpollEvent(fd) : fd \in produced},
                                       !.call = NoCall]
       /\ EpollReturn("wait", "wait", NoFd, produced # {})
  /\ UNCHANGED <<sem, opsLeft>>
  /\ EpollFrame

\* EventFd::write(v) and EventFd::read() of the tests, by another thread.
EventFdWrite(fd, v) ==
  /\ opsLeft > 0
  /\ sem[fd] + v <= SemMax
  /\ sem' = [sem EXCEPT ![fd] = @ + v]
  /\ opsLeft' = opsLeft - 1
  /\ UNCHANGED <<epollSet, last>>
  /\ EpollFrame

EventFdRead(fd) ==
  /\ opsLeft > 0
  /\ sem[fd] > 0
  /\ sem' = [sem EXCEPT ![fd] = @ - 1]
  /\ opsLeft' = opsLeft - 1
  /\ UNCHANGED <<epollSet, last>>
  /\ EpollFrame

NextEpoll ==
  \/ EpollSetEmpty
  \/ EpollSetWithFd
  \/ \E fd \in EpollFds, events \in (SUBSET EpollEventTypes) \ {{}} :
       add(fd, events) \/ modify(fd, events)
  \/ \E fd \in EpollFds : remove(fd)
  \/ clear
  \/ \E timeout \in Timeouts, maxEvents \in 0..MaxMaxEvents : wait(timeout, maxEvents)
  \/ waitInterrupted
  \/ waitReturns
  \/ \E fd \in EpollFds : EventFdWrite(fd, 1) \/ EventFdWrite(fd, SemMax) \/ EventFdRead(fd)

SpecEpoll == InitEpoll /\ [][NextEpoll]_vars

(***************************************************************************)
(* SpecToggle: one ReadWriteToggle and a sequence of setState calls on it. *)
(* `trace` records, for every call, the target state and the reads and     *)
(* writes the call made on the toggle's fd.                                *)
(***************************************************************************)
ToggleStates == {"READ_ONLY", "WRITE_ONLY", "READ_WRITE"}

\* The descriptor ::eventfd returns to createEventFd.
ToggleFd == MaxSems + 2

InitToggle ==
  /\ InitQueue(1, 0, 1, TRUE)
  /\ InitThreads
  /\ InitHist(MaxToggleOps)

ToggleFrame ==
  /\ fired' = {}
  /\ UNCHANGED <<constructed, dst, guards, epollSet, sync_, toNotify, maxSize_, lowWaterMark_,
                 highWaterMark_, q_, highWaterCrossed_, queueState_, queue_, sem,
                 observers_, acking, threadVars>>
  /\ UNCHANGED <<putLog, got, cleared, wmLog, nextItem>>

\* ReadWriteToggle::ReadWriteToggle: fd_(createEventFd(onExec)),
\* state_(READ_WRITE).  createEventFd creates the eventfd with the counter
\* of READ_WRITE and has no return statement, so fd_ is the descriptor or
\* something that is not a descriptor.
ReadWriteToggleCtor ==
  /\ ~toggle.exists /\ opsLeft > 0
  /\ \E fdOk \in CreateEventFdOutcomes :
       toggle' = [exists |-> TRUE, fd_ |-> IF fdOk THEN ToggleFd ELSE NoFd,
                  state_ |-> NewToggle.state_, count |-> NewToggle.count]
  /\ last' = Result("ReadWriteToggle", "NEG", "EMPTY", TRUE, FALSE, 0)
  /\ opsLeft' = opsLeft - 1
  /\ UNCHANGED trace
  /\ ToggleFrame

\* The calls of readValue and writeValue that changeState_ makes, in order.
changeStateIo_(state, newState) ==
  LET oldValue == STATE_VALUES(state)
      newValue == STATE_VALUES(newState)
  IN  IF newValue > oldValue THEN <<"writeValue">>
      ELSE IF newValue < oldValue
        THEN IF newValue # 0 THEN <<"readValue", "writeValue">> ELSE <<"readValue">>
      ELSE <<>>

\* ReadWriteToggle::setState: nothing when newState is the current state,
\* else changeState_; the first readValue or writeValue on an fd_ that is
\* not a descriptor throws SystemError, before state_ is assigned.
ToggleSetState(newState) ==
  /\ toggle.exists /\ opsLeft > 0
  /\ IF newState = toggle.state_
     THEN /\ UNCHANGED toggle
          /\ last' = Result("setState", "NEG", "EMPTY", TRUE, FALSE, 0)
          /\ trace' = Append(trace, <<newState, <<>>>>)
     ELSE IF toggle.fd_ = NoFd
     THEN /\ UNCHANGED toggle
          /\ last' = Result("SystemError", "NEG", "EMPTY", FALSE, FALSE, 0)
          /\ trace' = Append(trace, <<newState,
                                      <<Head(changeStateIo_(toggle.state_, newState))>>>>)
     ELSE /\ toggle' = [toggle EXCEPT
                          !.state_ = newState,
                          !.count = changeState_([state_ |-> toggle.state_,
                                                  count |-> toggle.count], newState).count]
          /\ last' = Result("setState", "NEG", "EMPTY", TRUE, FALSE, 0)
          /\ trace' = Append(trace, <<newState, changeStateIo_(toggle.state_, newState)>>)
  /\ opsLeft' = opsLeft - 1
  /\ ToggleFrame

\* What an EpollSet reports for toggle.fd(): nothing for an fd_ that is not
\* a descriptor.
ToggleReadable(tog) == tog.fd_ # NoFd /\ Readable(tog.count)
ToggleWritable(tog) == tog.fd_ # NoFd /\ Writable(tog.count)

NextToggle ==
  \/ ReadWriteToggleCtor
  \/ \E newState \in ToggleStates : ToggleSetState(newState)

SpecToggle == InitToggle /\ [][NextToggle]_vars

(***************************************************************************)
(* SpecLock: the mutexes of a Queue(1) and of its Conditions.  Threads     *)
(* call put(item), get(), Queue::wait(timeout, eventType), observe and     *)
(* ack; every lock(), unlock() and suspension is a step of its own:        *)
(*   lockQueue  before Lock_ lock(sync_) of the Queue method               *)
(*   body       holding Queue::sync_, at the test of the wait loop         *)
(*   lockCv     before unique_lock lock(sync_) of the Condition method     *)
(*   cvBody     holding Condition::sync_ in wait, observe or ack           *)
(*   down       suspended in Semaphore::down, in wait or ack               *)
(*   relock     before lock.lock() of waitForInvariant_                    *)
(*   ackRelock  before lock.lock() of Condition::ack                       *)
(*   ackPush    holding Condition::sync_ again in ack                      *)
(*   notify     holding Queue::sync_ in issueNotifications_, before the    *)
(*              unique_lock of the next notifyAll                          *)
(*   notifying  holding both mutexes inside notifyAll                      *)
(***************************************************************************)
InitLock ==
  /\ InitQueue(1, 0, 1, TRUE)
  /\ InitThreads
  /\ InitHist(MaxLockOps)

\* The mutexes thread t holds.
Holds(t) == {m \in Mutexes : sync_[m] = t}

\* What a step of SpecLock leaves alone.
LockFrame ==
  /\ fired' = {}
  /\ UNCHANGED <<constructed, dst, guards, epollSet, toggle, maxSize_, lowWaterMark_,
                 highWaterMark_, acking, phase, waited, began>>
  /\ UNCHANGED <<putLog, got, cleared, wmLog, trace, nextItem>>

\* The Condition a Queue method that has to wait waits on.
WaitCv(t) ==
  CASE op[t].kind = "put" -> "NOT_FULL"
    [] op[t].kind = "get" -> "NOT_EMPTY"
    [] OTHER -> op[t].ev

\* The invariant() of waitForInvariant_ for the call of thread t.
invariant(t) ==
  CASE WaitCv(t) = "NOT_FULL" -> Len(q_) < maxSize_
    [] WaitCv(t) = "NOT_EMPTY" -> q_ # <<>>
    [] WaitCv(t) = "FULL" -> Len(q_) >= maxSize_
    [] WaitCv(t) = "EMPTY" -> q_ = <<>>
    [] OTHER -> TRUE

\* A thread calls put(item), get(), Queue::wait(timeout, eventType),
\* observe(eventType) or ack(fd, eventType) with an fd it observed.
LockCall(t) ==
  /\ pc[t] = "idle" /\ constructed /\ opsLeft > 0
  /\ \E kind \in {"put", "get", "wait", "observe", "ack"}, tmo \in {"NEG", "POS"},
        ev \in {"EMPTY", "NOT_EMPTY", "FULL", "NOT_FULL"} :
       /\ kind \in {"put", "get", "observe", "ack"} => tmo = "NEG"
       /\ kind \in {"put", "get", "observe", "ack"} => ev = "NOT_EMPTY"
       /\ op' = [op EXCEPT ![t] = [kind |-> kind, tmo |-> tmo, ev |-> ev, item |-> 0]]
       /\ pc' = [pc EXCEPT ![t] = IF kind \in {"observe", "ack"} THEN "lockCv"
                                  ELSE "lockQueue"]
       /\ IF kind = "ack"
          THEN \E fd \in observers_[ev] : s' = [s EXCEPT ![t] = fd]
          ELSE UNCHANGED s
  /\ haveTime' = [haveTime EXCEPT ![t] = TRUE]
  /\ opsLeft' = opsLeft - 1
  /\ UNCHANGED <<sync_, toNotify, q_, highWaterCrossed_, queueState_, queue_, sem,
                 observers_, last>>
  /\ LockFrame

\* Lock_ lock(sync_) of a Queue method, and lock.lock() of
\* waitForInvariant_: the thread gets Queue::sync_ once it is free.
LockQueue(t) ==
  /\ pc[t] \in {"lockQueue", "relock"}
  /\ sync_["Queue"] = 0
  /\ sync_' = [sync_ EXCEPT !["Queue"] = t]
  /\ pc' = [pc EXCEPT ![t] = "body"]
  /\ UNCHANGED <<op, s, haveTime, toNotify, q_, highWaterCrossed_, queueState_, queue_,
                 sem, observers_, last, opsLeft>>
  /\ LockFrame

\* The Conditions issueNotifications_ notifies, in the order of its rules.
NotifyOrder(events) ==
  SelectSeq(<<"NOT_EMPTY", "EMPTY", "NOT_FULL", "FULL", "HIGH_WATER_MARK",
              "LOW_WATER_MARK">>, LAMBDA e : e \in events)

\* put and get with the invariant true: the item is pushed or popped and
\* issueNotifications_ begins (the toggle and the latch are set here, the
\* notifyAll calls follow one by one).
BodyProceed(t) ==
  /\ pc[t] = "body" /\ op[t].kind \in {"put", "get"} /\ invariant(t)
  /\ LET newQ == IF op[t].kind = "put" THEN Append(q_, 1) ELSE Tail(q_)
     IN  /\ q_' = newQ
         /\ toNotify' = NotifyOrder(NotifiedEvents(Len(q_), Len(newQ), highWaterCrossed_))
         /\ queueState_' = ToggleAfter(queueState_, Len(q_), Len(newQ))
         /\ highWaterCrossed_' = CrossedAfterLow(Len(q_), Len(newQ), highWaterCrossed_)
  /\ pc' = [pc EXCEPT ![t] = "notify"]
  /\ UNCHANGED <<op, s, haveTime, sync_, queue_, sem, observers_, last, opsLeft>>
  /\ LockFrame

\* The call returns: the Lock_ goes out of scope and releases Queue::sync_.
LockReturn(t, value) ==
  /\ sync_' = [sync_ EXCEPT !["Queue"] = 0]
  /\ last' = Result(op[t].kind, op[t].tmo, op[t].ev, value, FALSE, 0)
  /\ pc' = [pc EXCEPT ![t] = "idle"]
  /\ op' = [op EXCEPT ![t] = NoOp]

\* Queue::wait: waitForInvariant_ ends, with invariant() true or with the
\* time used up, and returns invariant().
BodyReturn(t) ==
  /\ pc[t] = "body" /\ op[t].kind = "wait"
  /\ invariant(t) \/ ~haveTime[t]
  /\ LockReturn(t, invariant(t))
  /\ UNCHANGED <<s, haveTime, toNotify, q_, highWaterCrossed_, queueState_, queue_, sem,
                 observers_, opsLeft>>
  /\ LockFrame

\* Mutant: waitForInvariant_ calls condition.wait without lock.unlock().
BodyUnlock_KeepsLock(t) ==
  /\ pc[t] = "body"
  /\ ~invariant(t) /\ haveTime[t]
  /\ pc' = [pc EXCEPT ![t] = "lockCv"]
  /\ UNCHANGED <<sync_, op, s, haveTime, toNotify, q_, highWaterCrossed_, queueState_,
                 queue_, sem, observers_, last, opsLeft>>
  /\ LockFrame
\* waitForInvariant_ with invariant() false and time left: lock.unlock(),
\* then condition.wait(timeout).
BodyUnlock(t) ==
  /\ pc[t] = "body"
  /\ ~invariant(t) /\ haveTime[t]
  /\ sync_' = [sync_ EXCEPT !["Queue"] = 0]
  /\ pc' = [pc EXCEPT ![t] = "lockCv"]
  /\ UNCHANGED <<op, s, haveTime, toNotify, q_, highWaterCrossed_, queueState_, queue_,
                 sem, observers_, last, opsLeft>>
  /\ LockFrame

\* The Condition whose method thread t is in.
LockCv(t) == WaitCv(t)

\* std::unique_lock<std::mutex> lock(sync_) of Condition::wait, observe and
\* ack, and lock.lock() of ack: the thread gets Condition::sync_ once it is
\* free.  (A wait or observe needs a free eventfd for its new Semaphore.)
LockCondition(t) ==
  /\ pc[t] \in {"lockCv", "ackRelock"}
  /\ sync_[LockCv(t)] = 0
  /\ (pc[t] = "lockCv" /\ op[t].kind # "ack") => FreeSems # {}
  /\ sync_' = [sync_ EXCEPT ![LockCv(t)] = t]
  /\ pc' = [pc EXCEPT ![t] = IF pc[t] = "lockCv" THEN "cvBody" ELSE "ackPush"]
  /\ UNCHANGED <<op, s, haveTime, toNotify, q_, highWaterCrossed_, queueState_, queue_,
                 sem, observers_, last, opsLeft>>
  /\ LockFrame

\* Condition::wait and wait(timeout): a new Semaphore is pushed on queue_,
\* lock.unlock(), and the thread goes into s->down().
WaitPush(t) ==
  /\ pc[t] = "cvBody" /\ op[t].kind \in {"put", "get", "wait"}
  /\ s' = [s EXCEPT ![t] = NewSem]
  /\ queue_' = [queue_ EXCEPT ![LockCv(t)] = Append(@, NewSem)]
  /\ sync_' = [sync_ EXCEPT ![LockCv(t)] = 0]
  /\ pc' = [pc EXCEPT ![t] = "down"]
  /\ UNCHANGED <<op, haveTime, toNotify, q_, highWaterCrossed_, queueState_, sem,
                 observers_, last, opsLeft>>
  /\ LockFrame

\* s->down() or s->down(timeout) returns true; condition.wait returns and
\* waitForInvariant_ goes to lock.lock().
WaitWake(t) ==
  /\ pc[t] = "down" /\ op[t].kind \in {"put", "get", "wait"}
  /\ sem[s[t]] > 0
  /\ sem' = [sem EXCEPT ![s[t]] = IF Enqueued(s[t]) THEN @ - 1 ELSE 0]
  /\ s' = [s EXCEPT ![t] = NoSem]
  /\ pc' = [pc EXCEPT ![t] = "relock"]
  /\ UNCHANGED <<sync_, op, haveTime, toNotify, q_, highWaterCrossed_, queueState_,
                 queue_, observers_, last, opsLeft>>
  /\ LockFrame

\* s->down(timeout) times out: condition.wait returns false, haveTime is
\* false; the handle stays in queue_.
WaitTimedOut(t) ==
  /\ pc[t] = "down" /\ op[t].kind = "wait" /\ op[t].tmo # "NEG"
  /\ sem[s[t]] = 0
  /\ sem' = [sem EXCEPT ![s[t]] = IF Enqueued(s[t]) THEN @ ELSE 0]
  /\ s' = [s EXCEPT ![t] = NoSem]
  /\ haveTime' = [haveTime EXCEPT ![t] = FALSE]
  /\ pc' = [pc EXCEPT ![t] = "relock"]
  /\ UNCHANGED <<sync_, op, toNotify, q_, highWaterCrossed_, queueState_, queue_,
                 observers_, last, opsLeft>>
  /\ LockFrame

\* issueNotifications_, holding Queue::sync_: the unique_lock of the next
\* notifyAll, on the Condition's own mutex.
NotifyLock(t) ==
  /\ pc[t] = "notify" /\ toNotify # <<>>
  /\ sync_[Head(toNotify)] = 0
  /\ sync_' = [sync_ EXCEPT ![Head(toNotify)] = t]
  /\ pc' = [pc EXCEPT ![t] = "notifying"]
  /\ UNCHANGED <<op, s, haveTime, toNotify, q_, highWaterCrossed_, queueState_, queue_,
                 sem, observers_, last, opsLeft>>
  /\ LockFrame

\* Condition::notifyAll: every handle is signalled and popped, and the
\* unique_lock releases Condition::sync_.
NotifyAllLocked(t) ==
  /\ pc[t] = "notifying"
  /\ notifyAll({Head(toNotify)})
  /\ sync_' = [sync_ EXCEPT ![Head(toNotify)] = 0]
  /\ toNotify' = Tail(toNotify)
  /\ pc' = [pc EXCEPT ![t] = "notify"]
  /\ UNCHANGED <<op, s, haveTime, q_, highWaterCrossed_, queueState_, last, opsLeft>>
  /\ LockFrame

\* issueNotifications_ is through: put returns true, get returns its item.
NotifyDone(t) ==
  /\ pc[t] = "notify" /\ toNotify = <<>>
  /\ LockReturn(t, TRUE)
  /\ UNCHANGED <<s, haveTime, toNotify, q_, highWaterCrossed_, queueState_, queue_, sem,
                 observers_, opsLeft>>
  /\ LockFrame

\* Condition::observe, holding Condition::sync_: a new Semaphore is pushed
\* and registered; the unique_lock releases the mutex on return.
ObserveLocked(t) ==
  /\ pc[t] = "cvBody" /\ op[t].kind = "observe"
  /\ queue_' = [queue_ EXCEPT ![LockCv(t)] = Append(@, NewSem)]
  /\ observers_' = [observers_ EXCEPT ![LockCv(t)] = @ \cup {NewSem}]
  /\ sync_' = [sync_ EXCEPT ![LockCv(t)] = 0]
  /\ last' = Result("observe", "NEG", op[t].ev, TRUE, FALSE, 0)
  /\ pc' = [pc EXCEPT ![t] = "idle"]
  /\ op' = [op EXCEPT ![t] = NoOp]
  /\ UNCHANGED <<s, haveTime, toNotify, q_, highWaterCrossed_, queueState_, sem, opsLeft>>
  /\ LockFrame

\* Condition::ack, holding Condition::sync_: lookup_(fd), lock.unlock(),
\* and the thread goes into s->down().
AckLookup(t) ==
  /\ pc[t] = "cvBody" /\ op[t].kind = "ack"
  /\ sync_' = [sync_ EXCEPT ![LockCv(t)] = 0]
  /\ pc' = [pc EXCEPT ![t] = "down"]
  /\ UNCHANGED <<op, s, haveTime, toNotify, q_, highWaterCrossed_, queueState_, queue_,
                 sem, observers_, last, opsLeft>>
  /\ LockFrame

\* s->down() of ack returns; ack goes to lock.lock().
AckWake(t) ==
  /\ pc[t] = "down" /\ op[t].kind = "ack"
  /\ sem[s[t]] > 0
  /\ sem' = [sem EXCEPT ![s[t]] = @ - 1]
  /\ pc' = [pc EXCEPT ![t] = "ackRelock"]
  /\ UNCHANGED <<sync_, op, s, haveTime, toNotify, q_, highWaterCrossed_, queueState_,
                 queue_, observers_, last, opsLeft>>
  /\ LockFrame

\* Condition::ack, holding Condition::sync_ again: queue_.push_back(s), and
\* the unique_lock releases the mutex on return.
AckPushLocked(t) ==
  /\ pc[t] = "ackPush"
  /\ queue_' = [queue_ EXCEPT ![LockCv(t)] = Append(@, s[t])]
  /\ sync_' = [sync_ EXCEPT ![LockCv(t)] = 0]
  /\ s' = [s EXCEPT ![t] = NoSem]
  /\ last' = Result("ack", "NEG", op[t].ev, TRUE, FALSE, 0)
  /\ pc' = [pc EXCEPT ![t] = "idle"]
  /\ op' = [op EXCEPT ![t] = NoOp]
  /\ UNCHANGED <<haveTime, toNotify, q_, highWaterCrossed_, queueState_, sem, observers_,
                 opsLeft>>
  /\ LockFrame

NextLock ==
  \E t \in Threads :
    \/ LockCall(t)
    \/ LockQueue(t)
    \/ BodyProceed(t)
    \/ BodyReturn(t)
    \/ BodyUnlock(t)
    \/ LockCondition(t)
    \/ WaitPush(t)
    \/ WaitWake(t)
    \/ WaitTimedOut(t)
    \/ NotifyLock(t)
    \/ NotifyAllLocked(t)
    \/ NotifyDone(t)
    \/ ObserveLocked(t)
    \/ AckLookup(t)
    \/ AckWake(t)
    \/ AckPushLocked(t)

SpecLock == InitLock /\ [][NextLock]_vars

\* lowWaterMark_ <= highWaterMark_ <= maxSize_, the toggle's counter is the
\* value of its state, a free semaphore's counter is 0.
TypeOK ==
  /\ constructed => lowWaterMark_ <= highWaterMark_ /\ highWaterMark_ <= maxSize_
  /\ constructed => queueState_.count = STATE_VALUES(queueState_.state_)
  /\ \A i \in FreeSems : sem[i] = 0

(***************************************************************************)
(* The claims.                                                             *)
(***************************************************************************)

\* C1: between operations, queueState_ is READ_ONLY iff size = maxSize_,
\* WRITE_ONLY iff size = 0 and READ_WRITE otherwise, and the queue-state fd
\* is readable iff items are present and writable iff capacity remains.
C1_QueueStateMatchesSize ==
  constructed =>
    /\ (queueState_.state_ = "READ_ONLY") <=> (Len(q_) = maxSize_)
    /\ (queueState_.state_ = "WRITE_ONLY") <=> (Len(q_) = 0)
    /\ Readable(queueState_.count) <=> (Len(q_) > 0)
    /\ Writable(queueState_.count) <=> (Len(q_) < maxSize_)

\* The threads other than t are between operations.
OthersIdle(t) == \A u \in Threads \ {t} : pc[u] = "idle"

\* Thread t is suspended in Semaphore::down() with nothing to read, inside a
\* call of the given kind with a negative timeout.
BlockedIn(t, kind) ==
  /\ op[t].kind = kind /\ op[t].tmo = "NEG"
  /\ pc[t] = "down"
  /\ sem[s[t]] = 0

\* C2: a consumer in get() is never left blocked while the queue is non-empty:
\* when it is suspended on NOT_EMPTY with no notification pending and no other
\* thread is inside an operation, the queue is empty.
C2_BlockedGetMeansEmpty ==
  \A t \in Threads : (BlockedIn(t, "get") /\ OthersIdle(t)) => q_ = <<>>

\* C3: a producer in put(item, -1) is never left blocked while the queue has
\* free capacity: when it is suspended on NOT_FULL with no notification pending
\* and no other thread is inside an operation, the queue is full.
C3_BlockedPutMeansFull ==
  \A t \in Threads : (BlockedIn(t, "put") /\ OthersIdle(t)) => Len(q_) >= maxSize_

\* C4: in every reachable state 0 <= size <= maxSize, whatever puts, gets,
\* getAlls and clears run concurrently.
C4_SizeWithinBounds == constructed => (0 <= Len(q_) /\ Len(q_) <= maxSize_)

\* C4 witness: two producers that were blocked on NOT_FULL have both been woken
\* by a notification and are about to look at the queue again.
C4_Witness ==
  \E t, u \in Threads :
    /\ t # u
    /\ \A x \in {t, u} : op[x].kind = "put" /\ pc[x] = "relock" /\ haveTime[x]
    /\ Len(q_) = maxSize_ - 1

IsPrefix(a, b) == Len(a) <= Len(b) /\ \A i \in DOMAIN a : a[i] = b[i]

\* t is the only thread to have taken items out of the queue.
SingleConsumer(t) ==
  /\ \A u \in Threads \ {t} : got[u] = <<>>
  /\ cleared = {}

\* C5: with a single consumer, the items it has been returned are, in order, a
\* prefix of the items in the order their puts succeeded.
C5_SingleConsumerFifo ==
  \A t \in Threads : SingleConsumer(t) => IsPrefix(got[t], putLog)

\* C5 witness: a single consumer has been returned two items, the second by a
\* get that had to wait for its producer.
C5_Witness ==
  \E t \in Threads :
    /\ SingleConsumer(t)
    /\ Len(got[t]) = 2
    /\ last.kind = "get" /\ last.value /\ last.waited

\* The number of times item x has been returned by a get or getAll.
Deliveries(x) ==
  Cardinality({p \in UNION {{<<t, i>> : i \in DOMAIN got[t]} : t \in Threads} :
                 got[p[1]][p[2]] = x})

\* C6: every item of a put that returned true is in exactly one place: in the
\* queue, returned by one get/getAll to one consumer, or discarded by clear;
\* no other item is in any of these places.
C6_ItemConservation ==
  \A x \in 1..nextItem :
    Occurrences(q_, x) + Deliveries(x) + (IF x \in cleared THEN 1 ELSE 0)
      = Occurrences(putLog, x)

\* C6 witness: two consumers have each been returned an item, one of them by
\* a get that had to wait.
C6_Witness ==
  /\ \E t, u \in Threads : t # u /\ got[t] # <<>> /\ got[u] # <<>>
  /\ last.kind = "get" /\ last.value /\ last.waited

\* C10: Queue::wait with a negative timeout never returns false, whichever of
\* the six events it waits for.
C10_NegativeWaitNeverFalse ==
  (last.kind = "wait" /\ last.tmo = "NEG") => last.value

\* highWaterCrossed_ was set when n watermark notifications had been issued.
LatchedAt(n) == n > 0 /\ wmLog[n] = "H"

\* C11: a Queue::wait for HIGH_WATER_MARK that began with highWaterCrossed_
\* set returns true only after LOW_WATER_MARK and then HIGH_WATER_MARK have
\* been notified since the call began, and with size > highWaterMark_.
C11_WaitsForNextCrossing ==
  (last.kind = "wait" /\ last.ev = "HIGH_WATER_MARK" /\ last.value
     /\ LatchedAt(last.began))
    => /\ Len(wmLog) >= last.began + 2
       /\ wmLog[last.began + 1] = "L"
       /\ wmLog[last.began + 2] = "H"
       /\ Len(q_) > highWaterMark_

\* C11 witness: such a wait has returned true, after suspending.
C11_Witness ==
  /\ last.kind = "wait" /\ last.ev = "HIGH_WATER_MARK" /\ last.value
  /\ LatchedAt(last.began)
  /\ last.waited

SimpleEvents == {"EMPTY", "NOT_EMPTY", "FULL", "NOT_FULL"}

\* Queue::wait for one of the four size events returns whether the event's
\* predicate holds at the return.
WaitReturnsPredicate ==
  (last.kind = "wait" /\ last.ev \in SimpleEvents) => (last.value = EventHolds(last.ev))

\* A Queue::wait for a size event whose predicate holds at the call does not
\* suspend.
NoSuspendWhenHolds ==
  \A t \in Threads :
    (pc[t] = "idle" /\ pc'[t] = "wait" /\ op'[t].kind = "wait"
       /\ op'[t].ev \in SimpleEvents)
      => ~EventHolds(op'[t].ev)

\* A Queue::wait for a size event with timeout 0 that has polled once does
\* not poll again.
ZeroPollsOnce ==
  \A t \in Threads :
    (pc[t] = "relock" /\ op[t].kind = "wait" /\ op[t].tmo = "ZERO"
       /\ op[t].ev \in SimpleEvents)
      => pc'[t] # "wait"

\* C12: Queue::wait(t, E) for E in EMPTY, NOT_EMPTY, FULL, NOT_FULL returns
\* the truth value of E's predicate at the return, does not suspend when the
\* predicate holds at the call, and with t = 0 polls at most once.
C12_WaitReportsPredicate ==
  /\ []WaitReturnsPredicate
  /\ [][NoSuspendWhenHolds]_vars
  /\ [][ZeroPollsOnce]_vars

\* This step is a call of the given kind that returns without suspending.
CallReturns(kind) == opsLeft' = opsLeft - 1 /\ pc' = pc /\ last'.kind = kind

\* This step is a call of the given kind and timeout that suspends.
CallSuspends(kind, tmo) ==
  \E t \in Threads :
    /\ pc[t] = "idle" /\ pc'[t] = "wait"
    /\ op'[t].kind = kind /\ op'[t].tmo = tmo

\* This step is the return of an operation of the given kind.
Returns(kind) ==
  \/ CallReturns(kind)
  \/ \E t \in Threads : pc[t] = "relock" /\ op[t].kind = kind /\ pc'[t] = "idle"

\* This step leaves the items, the latch, the queue state and the six
\* Conditions as they are, and notifies nothing.
QueueUntouched ==
  /\ UNCHANGED <<q_, highWaterCrossed_, queueState_, queue_, sem, putLog, wmLog>>
  /\ fired' = {}

\* C13: put(item, 0) on a full queue returns false without suspending, and any
\* put that returns false leaves items, size, highWaterCrossed_ and
\* queueState_ unchanged and notifies no Condition.
C13_FailedPutChangesNothing ==
  [][/\ Len(q_) >= maxSize_ => ~CallSuspends("put", "ZERO")
     /\ (Len(q_) >= maxSize_ /\ CallReturns("put") /\ last'.tmo = "ZERO")
          => ~last'.value
     /\ (Returns("put") /\ ~last'.value) => QueueUntouched]_vars

\* C13 witness: put(item, 0) has returned false on a full queue.
C13_Witness ==
  /\ last.kind = "put" /\ last.tmo = "ZERO" /\ ~last.value /\ ~last.waited
  /\ Len(q_) >= maxSize_

\* C14: get(result, 0) on an empty queue returns false without suspending,
\* changes nothing and notifies nothing; on a non-empty queue it returns true
\* with the front item, which it removes (so repeating it until false takes
\* out the resident items in FIFO order).
C14_GetZeroPolls ==
  [][/\ ~CallSuspends("get", "ZERO")
     /\ (q_ = <<>> /\ CallReturns("get") /\ last'.tmo = "ZERO")
          => (~last'.value /\ QueueUntouched /\ got' = got)
     /\ (q_ # <<>> /\ CallReturns("get") /\ last'.tmo = "ZERO")
          => /\ last'.value
             /\ q_' = Tail(q_)
             /\ \E t \in Threads : got' = [got EXCEPT ![t] = Append(@, Head(q_))]]_vars

\* C14 witness: get(result, 0) has returned false on a queue whose items have
\* all been taken out by gets of one thread.
C14_Witness ==
  /\ last.kind = "get" /\ last.tmo = "ZERO" /\ ~last.value /\ ~last.waited
  /\ q_ = <<>>
  /\ putLog # <<>>
  /\ \E t \in Threads : got[t] = putLog

\* The size goes through the change event E stands for, in this step.
EventOccurs(ev) ==
  CASE ev = "EMPTY" -> Len(q_) > 0 /\ Len(q_') = 0
    [] ev = "NOT_EMPTY" -> Len(q_) = 0 /\ Len(q_') > 0
    [] ev = "FULL" -> Len(q_) < maxSize_ /\ Len(q_') >= maxSize_
    [] ev = "NOT_FULL" -> Len(q_) >= maxSize_ /\ Len(q_') < maxSize_
    [] ev = "HIGH_WATER_MARK" ->
         Len(q_) <= highWaterMark_ /\ Len(q_') > highWaterMark_ /\ ~highWaterCrossed_
    [] ev = "LOW_WATER_MARK" ->
         Len(q_) > lowWaterMark_ /\ Len(q_') <= lowWaterMark_ /\ highWaterCrossed_

\* The fds Queue::observe(ev) has handed out and not taken back.
ObserverFds(ev) == observers_[selectCv_(ev)]

\* The observer's handle is on the Condition's queue_.
Armed(ev, fd) == fd \in ObserverFds(ev) /\ fd \in Range(queue_[selectCv_(ev)])

\* C15: an fd obtained from Queue::observe(E) becomes readable only in a step
\* in which the notification rule of E fires, and does become readable when
\* the rule fires while the observer is armed.
C15_ObserverSeesItsEvent ==
  [][\A ev \in EventTypes : \A fd \in ObserverFds(ev) :
       /\ (sem[fd] = 0 /\ sem'[fd] > 0) => EventOccurs(ev)
       /\ (Armed(ev, fd) /\ EventOccurs(ev)) => sem'[fd] > 0]_vars

\* C15 witness: of two armed observers, of LOW_WATER_MARK and of another
\* event, the first has been notified and the second has not.
C15_Witness ==
  \E e \in EventTypes \ {"LOW_WATER_MARK"} :
    \E fd \in ObserverFds("LOW_WATER_MARK"), other \in ObserverFds(e) :
      /\ sem[fd] > 0
      /\ Armed(e, other) /\ sem[other] = 0
      /\ "LOW_WATER_MARK" \in fired

\* This step moves the Queue to dst.
MoveStep == opsLeft' = opsLeft - 1 /\ last'.kind \in {"moveConstruct", "moveAssign"}

\* The state the queueState toggle of a Queue of the given size should be in.
ToggleFor(size, maxSize) ==
  IF size = 0 THEN "WRITE_ONLY" ELSE IF size = maxSize THEN "READ_ONLY" ELSE "READ_WRITE"

\* C16: after a move (construction or assignment) the destination holds the
\* source's items in order, its maxSize, lowWaterMark, highWaterMark and
\* highWaterCrossed, and the destination's queueState matches the size.
C16_DestinationTakesOver ==
  [][MoveStep =>
       /\ dst'.q_ = q_
       /\ dst'.maxSize_ = maxSize_
       /\ dst'.lowWaterMark_ = lowWaterMark_
       /\ dst'.highWaterMark_ = highWaterMark_
       /\ dst'.highWaterCrossed_ = highWaterCrossed_
       /\ dst'.queueState_.state_ = ToggleFor(Len(q_), maxSize_)]_vars

\* C17: a moved-from Queue has zero items, highWaterCrossed_ false and
\* queueState WRITE_ONLY, keeps maxSize and watermarks, and fires
\* HIGH_WATER_MARK at its next upward crossing of highWaterMark_.
C17_SourceStartsAfresh ==
  [][/\ MoveStep =>
          /\ q_' = <<>> /\ ~highWaterCrossed_'
          /\ queueState_'.state_ = "WRITE_ONLY"
          /\ UNCHANGED <<maxSize_, lowWaterMark_, highWaterMark_>>
     /\ (dst.exists /\ wmLog = dst.wmSeen
           /\ Len(q_) <= highWaterMark_ /\ Len(q_') > highWaterMark_)
          => "HIGH_WATER_MARK" \in fired']_vars

\* C17 witness: a Queue moved from with highWaterCrossed_ set has crossed
\* highWaterMark_ again and notified HIGH_WATER_MARK.
C17_Witness ==
  /\ dst.exists /\ dst.highWaterCrossed_
  /\ wmLog = Append(dst.wmSeen, "H")
  /\ "HIGH_WATER_MARK" \in fired

\* This step is a call of setLowWaterMark or setHighWaterMark.
SetterStep(kind) == opsLeft' = opsLeft - 1 /\ last'.kind = kind

\* C18: lowWaterMark_ <= highWaterMark_ <= maxSize_ in every state of a Queue
\* (no Queue is constructed with marks out of order, no setter puts them out
\* of order), and a setter that fails leaves both watermarks unchanged.
C18_WatermarksOrdered ==
  /\ [](constructed => (lowWaterMark_ <= highWaterMark_ /\ highWaterMark_ <= maxSize_))
  /\ [][\A kind \in {"setLowWaterMark", "setHighWaterMark"} :
          (SetterStep(kind) /\ ~last'.value)
            => UNCHANGED <<lowWaterMark_, highWaterMark_>>]_vars

\* C18 witness: setHighWaterMark has failed on a Queue whose watermarks are
\* equal, above 0 and below maxSize_.
C18_Witness ==
  /\ last.kind = "setHighWaterMark" /\ ~last.value
  /\ lowWaterMark_ > 0 /\ lowWaterMark_ = highWaterMark_
  /\ highWaterMark_ < maxSize_

\* C19: setLowWaterMark and setHighWaterMark change only their watermark:
\* items, highWaterCrossed_ and queueState_ stay as they are and no Condition
\* is notified, wherever the new mark lies with respect to the size.
C19_SettersChangeOnlyTheMark ==
  [][/\ SetterStep("setLowWaterMark") => (QueueUntouched /\ UNCHANGED highWaterMark_)
     /\ SetterStep("setHighWaterMark") => (QueueUntouched /\ UNCHANGED lowWaterMark_)]_vars

\* C19 witness: setHighWaterMark has put the high water mark below the size
\* of a queue whose latch is not set.
C19_Witness ==
  /\ last.kind = "setHighWaterMark" /\ last.value
  /\ Len(q_) > highWaterMark_
  /\ ~highWaterCrossed_

\* Threads inside Condition::ack.
InAck(e) == {t \in Threads : op[t].kind = "ack" /\ op[t].ev = e}

\* A notifyOne call on the Condition under test.
NotifyOneStep == opsLeft' = opsLeft - 1 /\ last'.kind = "notifyOne" /\ UNCHANGED pc

\* C20: each notifyOne made while threads are blocked in wait on the
\* Condition, and no observer is registered with it, wakes exactly one of
\* them and leaves the others blocked, whatever waits, observes and
\* stopObservings came before.
C20_NotifyOneWakesOneWaiter ==
  [][(NotifyOneStep /\ BlockedOn(cv) # {} /\ observers_[cv] = {} /\ InAck(cv) = {}) =>
       /\ BlockedOn(cv)' \subseteq BlockedOn(cv)
       /\ Cardinality(BlockedOn(cv)') = Cardinality(BlockedOn(cv)) - 1]_vars

\* A notifyAll call on the Condition under test.
NotifyAllStep == opsLeft' = opsLeft - 1 /\ last'.kind = "notifyAll" /\ UNCHANGED pc

\* Threads inside Condition::wait whose handle is in the notification queue.
WaitersEnqueued(e) ==
  {t \in Threads : pc[t] = "down" /\ op[t].kind = "cvWait" /\ op[t].ev = e
                   /\ s[t] \in Range(queue_[e])}

\* Observers of the Condition whose handle is in the notification queue.
ArmedObservers(e) == observers_[e] \cap Range(queue_[e])

\* Thread t is inside Condition::wait with its semaphore signalled.
Signalled(t) == pc[t] = "down" /\ op[t].kind = "cvWait" /\ sem[s[t]] > 0

\* C21: notifyAll signals every handle enqueued when it is called and leaves
\* the notification queue empty: the semaphore of every waiter and the fd of
\* every armed observer is readable afterwards; a signalled waiter returns,
\* and what it returns is true.
C21_NotifyAllSignalsAll ==
  /\ [][NotifyAllStep =>
          /\ queue_'[cv] = <<>>
          /\ \A t \in WaitersEnqueued(cv) : Signalled(t)'
          /\ \A fd \in ArmedObservers(cv) : Readable(sem'[fd])]_vars
  /\ [][\A t \in Threads : (Signalled(t) /\ pc'[t] = "idle") => last'.value]_vars
  /\ \A t \in Threads : Signalled(t) ~> (pc[t] = "idle")

\* C21 witness: a notifyAll has signalled a waiter with a timeout, a waiter
\* without one and an observer at once.
C21_Witness ==
  /\ last.kind = "notifyAll"
  /\ \E t, u \in Threads : /\ Signalled(t) /\ op[t].tmo = "POS"
                           /\ Signalled(u) /\ op[u].tmo = "NEG"
  /\ \E fd \in observers_[cv] : Readable(sem[fd])
  /\ queue_[cv] = <<>>

\* This step is the return of an ack(fd) on the Condition under test.
AckReturns(fd) == \E t \in Threads : pc[t] = "ackpush" /\ s[t] = fd /\ pc'[t] = "idle"

\* C22: the fd observe() returns is not readable while its handle is armed;
\* notifyAll makes the fd of every armed observer readable; when ack(fd)
\* returns the fd is not readable and its handle is armed again, so the next
\* notifyAll makes it readable again.
C22_ObserverRoundTrip ==
  /\ [](\A fd \in ArmedObservers(cv) : ~Readable(sem[fd]))
  /\ [][\A fd \in observers_'[cv] \ observers_[cv] :
          fd \in Range(queue_'[cv]) /\ ~Readable(sem'[fd])]_vars
  /\ [][NotifyAllStep =>
          \A fd \in ArmedObservers(cv) :
            Readable(sem'[fd]) /\ fd \notin Range(queue_'[cv])]_vars
  /\ [][\A fd \in observers_[cv] :
          AckReturns(fd) => (fd \in ArmedObservers(cv)' /\ ~Readable(sem'[fd]))]_vars

\* C22 witness: the only observer has been notified, its ack has returned
\* and it is armed again.
C22_Witness ==
  /\ last.kind = "ack"
  /\ \E fd \in SemIds :
       /\ observers_[cv] = {fd} /\ queue_[cv] = <<fd>>
       /\ sem[fd] = 0
  /\ \A t \in Threads : pc[t] = "idle"

\* C23: an observer's semaphore counts 0 or 1, its handle is in the
\* notification queue at most once and not at all while the count is 1, and
\* a readable fd stays readable until an ack takes the signal or
\* stopObserving removes the observer.
C23_OneSignalUntilAck ==
  /\ [](\A fd \in observers_[cv] :
          /\ sem[fd] \in {0, 1}
          /\ Occurrences(queue_[cv], fd) <= 1
          /\ sem[fd] = 1 => fd \notin Range(queue_[cv]))
  /\ [][\A fd \in observers_[cv] :
          (Readable(sem[fd]) /\ ~Readable(sem'[fd])) =>
             \/ \E t \in Threads : pc[t] = "ackdown" /\ s[t] = fd /\ pc'[t] = "ackpush"
             \/ fd \notin observers_'[cv]]_vars

\* C23 witness: after a notifyOne two observers are signalled and not yet
\* acked.
C23_Witness ==
  /\ last.kind = "notifyOne"
  /\ \E fd, other \in observers_[cv] :
       /\ fd # other
       /\ sem[fd] = 1 /\ sem[other] = 1

\* Thread t returns from Condition::wait(timeout) in this step.
WaitReturns(t) == op[t].kind = "cvWait" /\ pc[t] # "idle" /\ pc'[t] = "idle"

\* C24: Condition::wait(timeout) returns true exactly when its handle was
\* signalled while it waited, and false exactly when the timeout ran out on
\* a handle that had not been signalled; a notification that signals the
\* handle after the timeout ran out leaves the result false.
C24_FalseIffTimedOut ==
  /\ [][\A t \in Threads :
          WaitReturns(t) =>
            /\ last'.value <=> (pc[t] = "down" /\ Readable(sem[s[t]]))
            /\ ~last'.value <=> pc[t] = "expired"]_vars
  /\ [][\A t \in Threads :
          (pc[t] = "down" /\ pc'[t] = "expired") =>
             (~Readable(sem[s[t]]) /\ op[t].tmo # "NEG")]_vars

\* C24 witness: a wait(timeout) has returned false although its handle was
\* signalled after the timeout ran out.
C24_Witness ==
  \E t \in Threads :
    /\ pc[t] = "expired" /\ Readable(sem[s[t]])
    /\ last.kind = "notifyAll"

\* Thread t is the only thread inside ack on its fd.
SoleAck(t) ==
  /\ op[t].kind = "ack"
  /\ \A u \in InAck(cv) \ {t} : s[u] # s[t]

ThrowsNoSuchItem ==
  /\ opsLeft' = opsLeft - 1
  /\ last'.kind \in {"ack", "stopObserving"} /\ ~last'.value

\* C26: ack(fd) and stopObserving(fd) throw NoSuchItem exactly when fd is not
\* registered with the Condition they are called on, and then leave the
\* observer tables and the notification queues as they are; an fd leaves a
\* Condition's observer table only by a successful stopObserving on it.
C26_UnknownFdFails ==
  /\ [][ThrowsNoSuchItem =>
          /\ last'.fd \notin observers_[selectCv_(last'.ev)]
          /\ UNCHANGED <<observers_, queue_, sem, acking>>]_vars
  /\ [][\A e \in EventTypes : \A fd \in acking'[e] \ acking[e] :
          fd \in observers_[e] /\ last'.kind = "ack" /\ last'.value]_vars
  /\ [][\A e \in EventTypes : \A fd \in observers_[e] \ observers_'[e] :
          /\ last'.kind = "stopObserving" /\ last'.value
          /\ selectCv_(last'.ev) = e /\ opsLeft' = opsLeft - 1]_vars

\* C26 witness: stopObserving has failed on an armed fd that is registered
\* with another Condition of the Queue.
C26_Witness ==
  /\ last.kind = "stopObserving" /\ ~last.value
  /\ \E e \in EventTypes : last.fd \in observers_[e]
  /\ Enqueued(last.fd)

\* C27: once every Guard is destroyed, every fd a Guard obtained from
\* observe has had stopObserving called on it, on the Condition that issued
\* it; no stop() and no destructor calls stopObserving on an fd that is not
\* registered (a second time, or on another Condition); stop() on an inactive
\* Guard and the destructor of an inactive Guard release nothing.
C27_GuardsBalanceObserve ==
  /\ []((\A g \in Guards : guards[g].class = "none") =>
          \A e \in EventTypes : observers_[e] = {})
  /\ [](last.kind \in {"Guard::stop", "~Guard"} => last.value)
  /\ [][(last'.kind \in {"Guard::stop", "~Guard"} /\ opsLeft' # opsLeft
          /\ ~active(guards[last'.g])) => UNCHANGED observers_]_vars

\* This step moves the active Guard `other` to the Guard g.
GuardMoveStep(g, other) ==
  /\ opsLeft' = opsLeft - 1
  /\ last'.kind \in {"Guard(Guard&&)", "Guard::operator="}
  /\ last'.g = g /\ last'.other = other
  /\ g # other
  /\ active(guards[other])

\* C28: after a move construction or a move assignment from an active Guard
\* the destination is active, has the source's fd and calls the source's
\* Condition, and the source is inactive with fd() < 0.
C28_MoveTransfersObservation ==
  [][\A g, other \in Guards :
       GuardMoveStep(g, other) =>
         /\ active(guards'[g])
         /\ guards'[g].fd_ = guards[other].fd_
         /\ GuardCv(guards'[g]) = GuardCv(guards[other])
         /\ ~active(guards'[other])
         /\ guards'[other].fd_ < 0]_vars

\* The call of the given kind of thread t returns true in this step.
Completes(t, kind) ==
  /\ op[t].kind = kind /\ pc[t] # "idle" /\ pc'[t] = "idle"
  /\ last'.kind = kind /\ last'.value

\* What the calls that return true in this step add and take.
Added == IF \E t \in Threads : Completes(t, "up")
         THEN op[CHOOSE t \in Threads : Completes(t, "up")].item ELSE 0
Taken == IF \E t \in Threads : Completes(t, "down") THEN 1 ELSE 0

\* C29: the count is the initial value plus the v of every up that has
\* returned true minus one for every down that has returned true: every
\* step changes it by what the up or down completing in that step adds or
\* takes, and a call that returns false, a call that throws and a call still
\* under way change nothing.
C29_SemaphoreConservation ==
  [][sem'[SemFd] = sem[SemFd] + Added - Taken]_vars

\* C29 witness: an up(v, timeout) has returned false on a saturated
\* Semaphore while a down is under way.
C29_Witness ==
  /\ last.kind = "up" /\ ~last.value
  /\ sem[SemFd] = SemMax
  /\ \E t \in Threads : op[t].kind = "down" /\ pc[t] = "read"

TimedDownReturns(t) ==
  /\ op[t].kind = "down" /\ op[t].tmo # "NEG"
  /\ pc[t] # "idle" /\ pc'[t] = "idle"

\* C31: down(timeout) with timeout >= 0 returns true iff it took one from
\* the count: a true return has taken exactly one, a false return has left
\* the count as it was, and a false return happens only at a count of 0, so
\* a call made at a positive count returns true unless another down takes
\* the count to 0 first.
C31_TimedDownTrueIffDecremented ==
  [][\A t \in Threads :
       TimedDownReturns(t) =>
         /\ last'.kind = "down"
         /\ last'.value <=> sem'[SemFd] = sem[SemFd] - 1
         /\ ~last'.value => (sem'[SemFd] = sem[SemFd] /\ sem[SemFd] = 0)]_vars

\* C31 witness: a down(timeout) has returned false at a count of 0, while an
\* up whose unit will stay for a later down is on its way.
C31_Witness ==
  /\ last.kind = "down" /\ last.tmo # "NEG" /\ ~last.value
  /\ sem[SemFd] = 0
  /\ \E t \in Threads : op[t].kind = "up" /\ pc[t] = "write" /\ op[t].item = 1

\* Thread t is in up(v, timeout) with timeout >= 0 and a v >= 1 that the
\* eventfd accepts.
InTimedUp(t) ==
  /\ op[t].kind = "up" /\ op[t].tmo # "NEG" /\ pc[t] # "idle"
  /\ op[t].item \in 1..SemMax

\* C32: up(v, timeout) with timeout >= 0 returns: true iff it has added v,
\* false, with the count as it was, when v does not fit and no down makes
\* room; it never stays suspended in the write.
C32_TimedUpReturns ==
  /\ [][\A t \in Threads :
          (InTimedUp(t) /\ pc'[t] = "idle") =>
            /\ last'.kind = "up"
            /\ last'.value <=> sem'[SemFd] = sem[SemFd] + op[t].item
            /\ ~last'.value => sem'[SemFd] = sem[SemFd]]_vars
  /\ \A t \in Threads : InTimedUp(t) ~> (pc[t] = "idle")

\* Thread t is in down(timeout) with timeout >= 0.
InTimedDown(t) == op[t].kind = "down" /\ op[t].tmo # "NEG" /\ pc[t] # "idle"

\* C37: every down(timeout) with timeout >= 0 returns, whatever the other
\* threads do on the Semaphore and even when no further up comes; a caller
\* that found the fd readable and lost the unit to another down is not
\* left in the read.
C37_TimedDownTerminates ==
  /\ \A t \in Threads : InTimedDown(t) ~> (pc[t] = "idle")
  /\ [](\A t \in Threads :
          (InTimedDown(t) /\ pc[t] = "read" /\ opsLeft = 0
             /\ \A u \in Threads : op[u].kind # "up")
            => sem[SemFd] > 0)

\* This step is the call `call` on fd of the EpollSet, from entry to return
\* or throw.
EpollCallStep(call, fd) ==
  /\ EpollIdle /\ opsLeft' = opsLeft - 1
  /\ sem' = sem /\ ~epollSet'.call.waiting
  /\ last'.call = call /\ last'.fd = fd

\* The registrations and numTargets() are what they were.
RegistrationsUnchanged ==
  /\ epollSet'.registered = epollSet.registered
  /\ epollSet'.interest = epollSet.interest
  /\ epollSet'.numFds_ = epollSet.numFds_

C35_NumTargetsCountsRegistrations ==
  /\ [](epollSet.numFds_ = Cardinality(epollSet.registered))
  /\ [][\A fd \in EpollFds \cup {NoFd} :
          /\ (EpollCallStep("add", fd) /\ last'.kind = "add") =>
               epollSet'.numFds_ = epollSet.numFds_ + 1
          /\ (EpollCallStep("remove", fd) /\ last'.kind = "remove") =>
               epollSet'.numFds_ = epollSet.numFds_ - 1
          /\ EpollCallStep("modify", fd) => epollSet'.numFds_ = epollSet.numFds_
          /\ EpollCallStep("clear", fd) =>
               (epollSet'.numFds_ = 0 /\ epollSet'.registered = {})]_vars

\* C36: a call of wait ends by returning, never by an error: true with
\* events() holding an (fd, events) pair for fds that are ready, false with
\* events() empty when a timeout >= 0 elapsed with no fd ready, whatever the
\* number of registrations and also for maxEvents = 0; an interrupted
\* epoll_wait is only retried.
C36_WaitReportsEvents ==
  [][/\ EpollCallStep("wait", NoFd) => last'.kind = "wait"
     /\ (epollSet.call.waiting /\ ~epollSet'.call.waiting) =>
          /\ last'.kind = "wait"
          /\ last'.value <=> epollSet'.events_ # {}
          /\ epollSet'.events_ \subseteq {EpollEvent(fd) : fd \in ReadyFds}
          /\ last'.value <=> ReadyFds # {}
          /\ ~last'.value => epollSet.call.timeout # "NEG"
     /\ (epollSet.call.waiting /\ epollSet'.call.interrupted # epollSet.call.interrupted
           /\ epollSet'.call.waiting) =>
          (last' = last /\ epollSet'.events_ = epollSet.events_)]_vars

\* This step is a call of setState(S) on the toggle.
SetStateStep(S) ==
  /\ toggle.exists /\ opsLeft' = opsLeft - 1
  /\ Len(trace') = Len(trace) + 1 /\ trace'[Len(trace')][1] = S

\* C33: from every state of the toggle, setState(S) returns with
\* state() = S and with the fd readable iff S is READ_ONLY or READ_WRITE and
\* writable iff S is WRITE_ONLY or READ_WRITE; when S is the current state
\* the call reads and writes nothing.
C33_ToggleRoundTrip ==
  [][\A S \in ToggleStates :
       SetStateStep(S) =>
         /\ last'.kind = "setState"
         /\ toggle'.state_ = S
         /\ ToggleReadable(toggle') <=> S \in {"READ_ONLY", "READ_WRITE"}
         /\ ToggleWritable(toggle') <=> S \in {"WRITE_ONLY", "READ_WRITE"}
         /\ S = toggle.state_ => trace'[Len(trace')][2] = <<>>]_vars

\* C38: in every state of a Queue at rest, a size above highWaterMark has
\* the latch highWaterCrossed set, and a set latch has the size above
\* lowWaterMark.
C38_LatchMatchesSize ==
  constructed =>
    /\ Len(q_) > highWaterMark_ => highWaterCrossed_
    /\ highWaterCrossed_ => Len(q_) > lowWaterMark_

\* C38 amended: a Queue is constructed with the latch matching the size, and
\* every put, get, getAll and clear (every step that leaves both watermarks
\* as they are) keeps it matching; only a setter can leave a size above
\* highWaterMark with the latch clear, or a set latch with a size at or
\* below lowWaterMark.
C38_LatchMatchesSizeBetweenSetters ==
  /\ C38_LatchMatchesSize
  /\ [][(C38_LatchMatchesSize /\ lowWaterMark_' = lowWaterMark_
          /\ highWaterMark_' = highWaterMark_)
        => (constructed' =>
              /\ Len(q_') > highWaterMark_' => highWaterCrossed_'
              /\ highWaterCrossed_' => Len(q_') > lowWaterMark_')]_vars

\* C38 witness: the latch is set and the size has come back down between
\* the two watermarks, which were never changed.
C38_Witness ==
  /\ constructed /\ highWaterCrossed_
  /\ Len(q_) > lowWaterMark_ /\ Len(q_) <= highWaterMark_
  /\ wmLog = <<"H">>
  /\ last.kind = "get"

\* The handles in use on the Condition: the semaphore of every thread
\* inside wait, wait(timeout) or ack, and the fd of every observer.
HandlesInUse(e) ==
  {s[t] : t \in {u \in Threads : pc[u] # "idle"}} \cup observers_[e]

\* C39: every handle in the Condition's notification queue is in use: it
\* belongs to a thread that is inside wait or wait(timeout), or to a
\* registered observer.
C39_NoStaleHandles ==
  Range(queue_[cv]) \subseteq HandlesInUse(cv)

\* A thread that is suspended on a semaphore, in Semaphore::down.
Suspended(t) == pc[t] = "down"

\* The mutex thread t is about to lock, or "none".
Wants(t) ==
  CASE pc[t] \in {"lockQueue", "relock"} -> "Queue"
    [] pc[t] \in {"lockCv", "ackRelock"} -> LockCv(t)
    [] pc[t] = "notify" /\ toNotify # <<>> -> Head(toNotify)
    [] OTHER -> "none"

\* Thread t is blocked on a mutex another thread holds.
BlockedOnMutex(t) == Wants(t) # "none" /\ sync_[Wants(t)] # 0

\* Thread t is at a step it takes without waiting for anything.
Running(t) == Wants(t) = "none" /\ pc[t] \notin {"idle", "down"}

\* Thread t is running, or the mutex it wants is free or held by a thread
\* that is running.
Unhindered(t) ==
  \/ Running(t)
  \/ /\ Wants(t) # "none"
     /\ sync_[Wants(t)] = 0 \/ Running(sync_[Wants(t)])

\* A step in which thread t locks a mutex it did not hold: the Queue mutex
\* with no mutex held, a Condition mutex with at most the Queue mutex held.
OrderedAcquire(t) ==
  \A m \in Mutexes :
    (sync_[m] # t /\ sync_'[m] = t) =>
      IF m = "Queue" THEN Holds(t) = {} ELSE Holds(t) \subseteq {"Queue"}

\* C40: no thread is suspended on a semaphore (in Condition::wait, the
\* timed wait or ack) while it holds the Queue mutex or a Condition mutex;
\* a thread locks the Queue mutex holding nothing and a Condition mutex
\* holding at most the Queue mutex; so every held mutex is held by a thread
\* that is running or that waits for a mutex whose holder is running, never
\* are all threads blocked on mutexes, and a thread that wants the Queue
\* mutex finds it free whenever all the others are idle or suspended on the
\* Conditions.
C40_LockDiscipline ==
  /\ [](\A t \in Threads : Suspended(t) => Holds(t) = {})
  /\ [](\A m \in Mutexes : sync_[m] # 0 => Unhindered(sync_[m]))
  /\ [](~ \A t \in Threads : BlockedOnMutex(t))
  /\ [](\A t \in Threads :
          (Wants(t) = "Queue" /\ \A u \in Threads \ {t} : pc[u] = "idle" \/ Suspended(u))
            => sync_["Queue"] = 0)
  /\ [][\A t \in Threads : OrderedAcquire(t)]_vars

\* One thread is suspended in a wait of the Queue, a second holds the Queue
\* mutex and a Condition mutex inside notifyAll, a third wants the Queue
\* mutex.
C40_Witness ==
  \E t, u, v \in Threads :
    /\ Suspended(t) /\ op[t].kind \in {"get", "put", "wait"}
    /\ pc[u] = "notifying" /\ Holds(u) = {"Queue", Head(toNotify)}
    /\ Wants(v) = "Queue"

\* C7: HIGH_WATER_MARK and LOW_WATER_MARK notifications alternate, starting
\* with HIGH_WATER_MARK.
C7_WatermarksAlternate ==
  \A i \in DOMAIN wmLog : wmLog[i] = IF i % 2 = 1 THEN "H" ELSE "L"

\* C7 witness: a high, a low and a second high water mark notification have
\* been issued.
C7_Witness == wmLog = <<"H", "L", "H">>

\* C8: on Queue(10, 2, 4), as long as the operations are 5 puts, 1 get, 1 put,
\* 3 gets, 3 puts, the watermark events are: HIGH_WATER_MARK on the 5th put,
\* LOW_WATER_MARK on the get that brings the size to 2, HIGH_WATER_MARK on the
\* last put, and none on any other operation.
ScenarioOps ==
  <<"put", "put", "put", "put", "put", "get", "put", "get", "get", "get",
    "put", "put", "put">>
ScenarioEvents ==
  <<<<>>, <<>>, <<>>, <<>>, <<"H">>, <<>>, <<>>, <<>>, <<>>, <<"L">>,
    <<>>, <<>>, <<"H">>>>
FollowsScenario(n) ==
  /\ n <= Len(ScenarioOps)
  /\ \A i \in 1..n : trace[i].kind = ScenarioOps[i]
C8_WatermarkSequence ==
  \A n \in DOMAIN trace :
    FollowsScenario(n) => trace[n].value /\ trace[n].wm = ScenarioEvents[n]

\* C8 witness: the whole scenario has run.
C8_Witness ==
  /\ Len(trace) = Len(ScenarioOps)
  /\ FollowsScenario(Len(ScenarioOps))
  /\ Len(q_) = 5

\* C9 as stated: with lowWaterMark_ = highWaterMark_ = maxSize_, the put that
\* takes the size from below maxSize_ to maxSize_ notifies HIGH_WATER_MARK
\* (and no other operation does).
C9_FiresOnReachingMax ==
  (constructed /\ lowWaterMark_ = maxSize_ /\ highWaterMark_ = maxSize_)
    => (("HIGH_WATER_MARK" \in fired)
          <=> (last.kind = "put" /\ last.value /\ Len(q_) = maxSize_))

\* C9 amended: while highWaterMark_ = maxSize_ no operation notifies
\* HIGH_WATER_MARK, the put that fills the queue included; it notifies FULL.
C9_NeverFiresAtMax ==
  (constructed /\ highWaterMark_ = maxSize_)
    => /\ "HIGH_WATER_MARK" \notin fired
       /\ (last.kind = "put" /\ last.value /\ Len(q_) = maxSize_) => "FULL" \in fired

\* C9 witness: a queue with both marks at maxSize_ has just been filled.
C9_Witness ==
  /\ constructed /\ lowWaterMark_ = maxSize_ /\ highWaterMark_ = maxSize_
  /\ last.kind = "put" /\ last.value /\ Len(q_) = maxSize_
  /\ wmLog = <<>>
====
